---- MODULE Spec2Model ----
(***************************************************************************)
(* Request accelerator of Flash-n-Frame (src/unnamed/part_003):            *)
(*   MemoryCache (apiCache), cachedFetch, deduplicatedFetch and            *)
(*   withExponentialBackoff, as state machines over one event loop.        *)
(* Each component has its own specification: SpecCache (the cache used     *)
(* directly), SpecFetch (cachedFetch), SpecDedup and SpecDedupFair         *)
(* (deduplicatedFetch), SpecBackoff.  The components share no state except *)
(* the clock.  The rate shapers throttle and debounce (SpecThrottle,       *)
(* SpecDebounce) and createCacheKey (SpecKey) are modelled the same way.   *)
(* The task list of src/unnamed/part_005 (ProjectProvider) with the hook   *)
(* src/hooks/useTaskManagement.ts has the specifications SpecTasks and     *)
(* SpecFilter.                                                             *)
(***************************************************************************)
EXTENDS Integers, Sequences, FiniteSets, TLC

VARIABLES
    now,        \* Date.now(): clock units for the cache, ms for the timers
    cache,      \* MemoryCache.cache: the Map, as its entries in insertion order
    lastOp,     \* the cache call made by the last step, with what it returned
    fetches,    \* the cachedFetch calls: where each one is, and what it got
    opCount,    \* number of cache calls made so far
    pendingRequests,    \* the Map of deduplicatedFetch: key -> promise, 0 for no entry
    requests,   \* the fetcher invocations of deduplicatedFetch, each with its promise
    callers,    \* the deduplicatedFetch calls: where each one is, and what it got
    retry,      \* the withExponentialBackoff call: its arguments, locals and result
    invocations,    \* the invocations of fn it made: when, and how each ended
    waits,      \* the delays it gave to setTimeout, in order
    throttled,  \* the closure made by throttle: delayMs, lastCall, lastResult
    thist,      \* the calls of the throttled function so far, and the last one
    debounced,  \* the closure made by debounce: delayMs, timeoutId
    timers,     \* the timers debounce gave to setTimeout, numbered by their id
    fired,      \* the executions of fn made by the debounce timers, in order
    keyed,      \* the last two createCacheKey calls: their parts and their keys
    tasks,      \* ProjectContext tasks: the task list, newest first
    form,       \* useTaskManagement: newTaskTitle, newTaskPriority, newTaskDate
    filters,    \* useTaskManagement: filterPriority, filterStatus, filterDate
    taskOp,     \* the task operation of the last step and its id, none if it had none
    filteredTasks,  \* useTaskManagement: what useMemo holds, computed at a render
    loaded      \* ProjectProvider: loadData has set the tasks, or has failed

cacheVars == <<now, cache, lastOp, fetches, opCount>>
dedupVars == <<pendingRequests, requests, callers>>
retryVars == <<retry, invocations, waits>>
throttleVars == <<throttled, thist>>
debounceVars == <<debounced, timers, fired>>
shaperVars == <<throttled, thist, debounced, timers, fired, keyed>>
taskVars == <<tasks, form, filters, taskOp, filteredTasks, loaded>>
vars == <<now, cache, lastOp, fetches, opCount, pendingRequests, requests, callers,
          retry, invocations, waits, throttled, thist, debounced, timers, fired, keyed,
          tasks, form, filters, taskOp, filteredTasks, loaded>>

(***************************************************************************)
(* Bounds of the model.                                                    *)
(***************************************************************************)
MaxNow == 1         \* the clock runs from 0 to MaxNow
MaxOps == 3         \* calls made on the cache in one run
MaxFetches == 2     \* cachedFetch calls that can be in flight together
MaxCallers == 3     \* deduplicatedFetch calls of one run
MaxRequests == 2    \* fetcher invocations made by deduplicatedFetch in one run
MaxMaxRetries == 4  \* the largest maxRetries argument of withExponentialBackoff
TimerStep == 500    \* the clock step while a timer runs, in ms
MaxInvocations == 6 \* invocations of fn by one call of withExponentialBackoff
MaxLate == 1        \* clock steps a call is held up in all, by fn and by late timers
MaxThrottleNow == 6     \* the clock of the throttled function runs from 0 to here
MaxNesting == 2
MaxThrottleCalls == 6   \* calls of the throttled function in one run
MaxDebounceNow == 4     \* the clock of the debounced function runs from 0 to here
MaxDebounceCalls == 3   \* calls of the debounced function in one run
MaxOrderOps == 4        \* calls made on the cache in a run of sets
MaxTasks == 2           \* tasks added in one run
MaxTaskNow == 2         \* the clock of the task list runs from 0 to here, in ms
DayLength == 2          \* ms in a day, on the clock of the task list
MaxParts == 2           \* the longest argument list given to createCacheKey

(***************************************************************************)
(* Program constants.                                                      *)
(***************************************************************************)
maxSize == 100      \* MemoryCache.maxSize
DefaultMaxRetries == 3          \* withExponentialBackoff: maxRetries = 3
DefaultInitialDelayMs == 1000   \* withExponentialBackoff: initialDelayMs = 1000

(***************************************************************************)
(* Values.  A JavaScript null is the string Null; the cache itself uses    *)
(* null for "absent", exactly as the code does.                            *)
(***************************************************************************)
Null == "null"
Values == {Null, "A", "B"}
Errors == {"E1", "E2"}
Keys == {"", "1", "x"}          \* the keys the calls of a run are made with
FetchKeys == {"x"}              \* the keys cachedFetch is called with
TTLs == {0, 1}                  \* ttlMs arguments
NoKey == "-"                    \* placeholder in lastOp for calls without a key

\* A string used as an if-condition: only the empty string is falsy.
Truthy(s) == s # ""

(***************************************************************************)
(* The JavaScript Map holding the entries: a sequence of records           *)
(* [key, data, timestamp, ttl] in insertion order.                         *)
(***************************************************************************)
KeysOf(c) == {c[i].key : i \in DOMAIN c}

MapHas(c, k) == \E i \in DOMAIN c : c[i].key = k

IndexOf(c, k) == CHOOSE i \in DOMAIN c : c[i].key = k

MapGet(c, k) == c[IndexOf(c, k)]

MapDelete(c, k) == SelectSeq(c, LAMBDA e : e.key # k)

\* (mutant) a set that moves the key to the last place, as a newly inserted one.
MapSetMovesLast(c, k, e) == Append(MapDelete(c, k), e)

\* (mutant) a set that adds an entry next to the one that is already there.
MapSetAppends(c, k, e) == Append(c, e)

\* (mutant) a set that leaves the entry of a key that is already there.
MapSetKeepsOld(c, k, e) ==
    IF MapHas(c, k) THEN c ELSE Append(c, e)

\* Map.set keeps the position of a key that is already there, and appends a new one.
MapSet(c, k, e) ==
    IF MapHas(c, k) THEN [c EXCEPT ![IndexOf(c, k)] = e] ELSE Append(c, e)

Entry(k, d, ts, ttlMs) == [key |-> k, data |-> d, timestamp |-> ts, ttl |-> ttlMs]

(***************************************************************************)
(* MemoryCache                                                             *)
(***************************************************************************)
\* set, lines 17-20: the eviction before the insertion.
Evict(c) ==
    IF Len(c) >= maxSize
    THEN LET oldestKey == c[1].key
         IN  IF Truthy(oldestKey) THEN MapDelete(c, oldestKey) ELSE c
    ELSE c

\* set(key, data, ttlMs) at time t.
CacheSet(c, key, data, ttlMs, t) ==
    MapSet(Evict(c), key, Entry(key, data, t, ttlMs))

\* get, line 33: the test that an entry has expired at time t.
Expired(e, t) == t - e.timestamp > e.ttl

\* (mutant) get that answers null for an expired entry and leaves it stored.
CacheAfterGetKeeps(c, key, t) == c

\* get(key) at time t: the cache it leaves.
CacheAfterGet(c, key, t) ==
    IF ~MapHas(c, key) THEN c
    ELSE IF Expired(MapGet(c, key), t) THEN MapDelete(c, key)
    ELSE c

\* get(key) at time t: the value it returns.
CacheGet(c, key, t) ==
    IF ~MapHas(c, key) THEN Null
    ELSE IF Expired(MapGet(c, key), t) THEN Null
    ELSE MapGet(c, key).data

\* (mutant) has that asks the Map and not get: true for whatever is stored.
CacheHasStored(c, key, t) == MapHas(c, key)

\* has(key) at time t.
CacheHas(c, key, t) == CacheGet(c, key, t) # Null

\* (mutant) a delete that takes the other entries with it.
CacheDeleteAll(c, key) == IF MapHas(c, key) THEN << >> ELSE c

\* delete(key).
CacheDelete(c, key) == MapDelete(c, key)

CacheClear(c) == << >>

\* (mutant) a size that leaves out the entries that have outlived their ttl.
CacheSizeLive(c) == Len(SelectSeq(c, LAMBDA e : ~Expired(e, now)))

\* size(): the Map's size.
CacheSize(c) == Len(c)

(***************************************************************************)
(* What a step records of the call it made.  found tells what the call met *)
(* under its key: "none", "fresh" or "expired"; size is the number of      *)
(* entries before the call.                                                *)
(***************************************************************************)
Found(c, key, t) ==
    IF ~MapHas(c, key) THEN "none"
    ELSE IF t - MapGet(c, key).timestamp > MapGet(c, key).ttl THEN "expired"
    ELSE "fresh"

\* No entry: what the oldest entry of an empty cache is.
NoEntry == [key |-> NoKey, data |-> Null, timestamp |-> 0, ttl |-> 0]

\* A call on the cache, with what it returned; found and size tell what the
\* cache held when the call was made, and so does oldest, its first entry,
\* for the sets of SpecOrder (NoEntry for the other calls).
Call(op, key, data, ttlMs, ret, found, fid) ==
    [op |-> op, key |-> key, data |-> data, ttl |-> ttlMs, ret |-> ret,
     found |-> found, fid |-> fid, size |-> Len(cache), oldest |-> NoEntry]

\* A cachedFetch call: pc is "idle" (not called), "awaiting" (at line 74, the
\* fetcher running), "returned" or "threw"; ret is what it returned or threw,
\* invoked the number of times it invoked its fetcher, and seen the cache as its
\* lookup left it.
Fetch(pc, key, ttlMs, ret, invoked, seen) ==
    [pc |-> pc, key |-> key, ttl |-> ttlMs, ret |-> ret, invoked |-> invoked,
     seen |-> seen]

IdleFetch == Fetch("idle", NoKey, 0, Null, 0, << >>)

(***************************************************************************)
(* deduplicatedFetch: its state.                                           *)
(***************************************************************************)
DedupKeys == {"a", "b"}         \* the keys deduplicatedFetch is called with
NoThrow == "-"                  \* a fetcher that returns its promise

\* The outcome of a promise: a value, or an error thrown.
Fulfilled(v) == [kind |-> "value", v |-> v]
Rejected(e) == [kind |-> "error", v |-> e]
Unsettled == [kind |-> "none", v |-> Null]
Outcomes == {Fulfilled(v) : v \in {"A", "B"}} \cup {Rejected(e) : e \in Errors}

\* One invocation of a fetcher and the promise deduplicatedFetch made of it.
\* phase "running": the fetcher's promise is pending; "settled": it has settled
\* with outcome and the finally callback (line 90) is queued; "cleared": the
\* callback has run and the promise of line 89 is still pending; "done": the
\* promise of line 89 is settled with outcome.
Request(key, phase, outcome) == [key |-> key, phase |-> phase, outcome |-> outcome]

\* A deduplicatedFetch call: pc is "idle" (not called), "waiting" (it holds the
\* promise and awaits it) or "got" (it has seen the outcome ret); promise is the
\* request whose promise it was given; started tells it invoked the fetcher;
\* live is the set of requests of its key whose finally callback had not run
\* when it was made.
Caller(pc, key, promise, started, ret, live) ==
    [pc |-> pc, key |-> key, promise |-> promise, started |-> started, ret |-> ret,
     live |-> live]

IdleCaller == Caller("idle", NoKey, 0, FALSE, Unsettled, {})

(***************************************************************************)
(* withExponentialBackoff: its state.                                      *)
(***************************************************************************)
\* maxRetries is a number, not only a count: the model has the whole numbers
\* and the numbers half-way between two of them, each given by the whole
\* number at or below it (floor) and by whether it is half above that, and
\* NaN (floor 0, never compared) and Infinity (floor 0, above every number).
Whole(n) == [kind |-> "number", floor |-> n, half |-> FALSE]
AndAHalf(n) == [kind |-> "number", floor |-> n, half |-> TRUE]
NaN == [kind |-> "NaN", floor |-> 0, half |-> FALSE]
Infinity == [kind |-> "Infinity", floor |-> 0, half |-> FALSE]

\* i <= x, i === x, x >= 0, x < 0 and i < x for a whole number i and a number x;
\* every comparison with NaN is false, and Infinity is above every i.
IsFinite(x) == x.kind = "number"
LessEq(i, x) == x.kind = "Infinity" \/ (IsFinite(x) /\ i <= x.floor)
StrictEq(i, x) == IsFinite(x) /\ ~x.half /\ i = x.floor
NonNegative(x) == x.kind = "Infinity" \/ (IsFinite(x) /\ x.floor >= 0)
Negative(x) == IsFinite(x) /\ x.floor < 0
Less(i, x) ==
    x.kind = "Infinity" \/ (IsFinite(x) /\ (IF x.half THEN i <= x.floor ELSE i < x.floor))
IsCount(x) == IsFinite(x) /\ x.floor >= 0 /\ ~x.half

\* The maxRetries arguments: -1, -0.5, 0, 0.5, 1, 2, 2.5, ..., NaN and
\* Infinity (-Infinity does what -1 does).
RetryCounts ==
    {Whole(n) : n \in -1..MaxMaxRetries} \cup {AndAHalf(n) : n \in {-1, 0, 2}}
        \cup {NaN, Infinity}
InitialDelays == {DefaultInitialDelayMs, TimerStep, 0} \* initialDelayMs arguments

\* The arguments of a call.  A call with Infinity goes on without end: it is
\* made with initialDelayMs = 0 alone, so that its delays and the clock stay
\* where they are.
BackoffArgs ==
    {args \in RetryCounts \X InitialDelays : args[1] = Infinity => args[2] = 0}

\* The error of line 143.
MaxRetriesExceeded == Rejected("Max retries exceeded")

\* The error thrown by the i-th invocation of fn, when it fails: each failure is
\* an error of its own.
FailureOf(i) == Rejected(ToString(i))

\* pc is "idle" (not called), "awaiting" (line 135, fn running), "sleeping"
\* (line 138, the timer set), "returned" or "threw"; attempt and delay are the
\* locals; wake is the time the timer of line 138 is due; ret is the outcome.
Retry(pc, maxRetries, initialDelayMs, attempt, delay, wake, ret) ==
    [pc |-> pc, maxRetries |-> maxRetries, initialDelayMs |-> initialDelayMs,
     attempt |-> attempt, delay |-> delay, wake |-> wake, ret |-> ret]

IdleRetry == Retry("idle", Whole(0), 0, 0, 0, 0, Unsettled)

\* One invocation of fn: started and, once out is settled, ended at these times.
Invocation(started, ended, out) == [started |-> started, ended |-> ended, out |-> out]

\* State of throttle (lines 97-112).  The wrapped fn is any function: the result
\* of its n-th execution, made with args, is FnResult(n, args), so that every
\* execution gives a result of its own.  lastResult starts undefined (line 102).
Args == {"p", "q"}
Delays == {0, 2, 3}
Undefined == [exec |-> 0, args |-> "undefined"]
FnResult(n, args) == [exec |-> n, args |-> args]
NoTime == -1

\* Lines 101-102: let lastCall = 0; let lastResult.
\* running are the executions of fn (line 108) that have been entered and
\* have not ended, the innermost last.
Throttle(pc, delayMs) ==
    [pc |-> pc, delayMs |-> delayMs, lastCall |-> 0, lastResult |-> Undefined,
     running |-> << >>]

\* What a call that threw gave its caller.
Thrown == [exec |-> 0, args |-> "thrown"]

\* What the calls of the throttled function did so far: how many there were,
\* how many entered fn, how many executions returned and how many threw, how
\* many calls were made by fn itself, when the last execution was entered and
\* which it was, and the last call (when, with what, whether it entered fn)
\* and what the last call that ended gave.
NoCalls ==
    [calls |-> 0, execs |-> 0, returned |-> 0, thrown |-> 0, nested |-> 0,
     lastExecAt |-> NoTime, lastExec |-> Undefined,
     run |-> 0, at |-> NoTime, args |-> "-", executed |-> FALSE,
     ret |-> Undefined]

\* State of debounce (lines 114-124).  A timer id is the timer's number, from
\* 1 on, and 0 is null: an id is never falsy (line 121).
Debounce(pc, delayMs) == [pc |-> pc, delayMs |-> delayMs, timeoutId |-> 0]

\* A timer given to setTimeout at time set, to run fn(args) at time due.
Timer(set, due, args, state) == [set |-> set, due |-> due, args |-> args, state |-> state]

\* State of the task list.  A date (dueDate, today) is the text YYYY-MM-DD,
\* compared as text by the code; it is given here by the number of its day.
\* NoDate is the empty text of the date field.
NoDate == -1
Dates == 0..2
Priorities == <<"high", "medium", "low">>
Titles == {<< >>, <<" ">>, <<"t">>}

\* types: interface Task.
Task(id, title, priority, dueDate, completed, createdAt) ==
    [id |-> id, title |-> title, priority |-> priority, dueDate |-> dueDate,
     completed |-> completed, createdAt |-> createdAt]

\* useTaskManagement.ts lines 14-16 and 19-21: the initial state of the hook.
NewForm == [title |-> << >>, priority |-> "medium", date |-> NoDate]
NoFilters == [priority |-> "all", status |-> "all", date |-> "all"]
TaskOp(op, id) == [op |-> op, id |-> id]

Init ==
    /\ now = 0
    /\ tasks = << >>
    /\ filteredTasks = << >>
    /\ loaded = FALSE
    /\ form = NewForm
    /\ filters = NoFilters
    /\ taskOp = TaskOp("none", << >>)
    /\ throttled = Throttle("none", 0)
    /\ thist = NoCalls
    /\ debounced = Debounce("none", 0)
    /\ timers = << >>
    /\ fired = << >>
    /\ keyed = << >>
    /\ cache = << >>
    /\ lastOp = [op |-> "new", key |-> NoKey, data |-> Null, ttl |-> 0, ret |-> Null,
                 found |-> "none", fid |-> 0, size |-> 0, oldest |-> NoEntry]
    /\ fetches = [f \in 1..MaxFetches |-> IdleFetch]
    /\ opCount = 0
    /\ pendingRequests = [k \in DedupKeys |-> 0]
    /\ requests = << >>
    /\ callers = [c \in 1..MaxCallers |-> IdleCaller]
    /\ retry = IdleRetry
    /\ invocations = << >>
    /\ waits = << >>

(***************************************************************************)
(* Callers of the cache.                                                   *)
(***************************************************************************)
\* A run of set calls that loads the cache, all at time t: the keys numbered
\* lo..hi in order, where key number 1 is first and key number i is "i".
RECURSIVE Load(_, _, _, _, _, _)
Load(c, first, lo, hi, ttlMs, t) ==
    IF lo > hi THEN c
    ELSE IF lo = hi
    THEN CacheSet(c, IF lo = 1 THEN first ELSE ToString(lo), "A", ttlMs, t)
    ELSE LET mid == (lo + hi) \div 2
             left == Load(c, first, lo, mid, ttlMs, t)
         IN  \* (the test has left computed before the second half starts)
             IF Len(left) >= 0 THEN Load(left, first, mid + 1, hi, ttlMs, t) ELSE c

Populate(first, n) ==
    /\ opCount < MaxOps
    /\ cache = << >>
    /\ cache' = Load(cache, first, 1, n, 0, now)
    /\ lastOp' = Call("populate", first, "A", 0, Null, "none", 0)
    /\ opCount' = opCount + 1
    /\ UNCHANGED <<taskVars, shaperVars, now, fetches, dedupVars, retryVars>>

Set(key, data, ttlMs) ==
    /\ opCount < MaxOps
    /\ cache' = CacheSet(cache, key, data, ttlMs, now)
    /\ lastOp' = Call("set", key, data, ttlMs, Null, Found(cache, key, now), 0)
    /\ opCount' = opCount + 1
    /\ UNCHANGED <<taskVars, shaperVars, now, fetches, dedupVars, retryVars>>

Get(key) ==
    /\ opCount < MaxOps
    /\ cache' = CacheAfterGet(cache, key, now)
    /\ lastOp' = Call("get", key, Null, 0, CacheGet(cache, key, now),
                      Found(cache, key, now), 0)
    /\ opCount' = opCount + 1
    /\ UNCHANGED <<taskVars, shaperVars, now, fetches, dedupVars, retryVars>>

Has(key) ==
    /\ opCount < MaxOps
    /\ cache' = CacheAfterGet(cache, key, now)
    /\ lastOp' = Call("has", key, Null, 0,
                      IF CacheHas(cache, key, now) THEN "true" ELSE "false",
                      Found(cache, key, now), 0)
    /\ opCount' = opCount + 1
    /\ UNCHANGED <<taskVars, shaperVars, now, fetches, dedupVars, retryVars>>

Delete(key) ==
    /\ opCount < MaxOps
    /\ cache' = CacheDelete(cache, key)
    /\ lastOp' = Call("delete", key, Null, 0, Null, Found(cache, key, now), 0)
    /\ opCount' = opCount + 1
    /\ UNCHANGED <<taskVars, shaperVars, now, fetches, dedupVars, retryVars>>

Clear ==
    /\ opCount < MaxOps
    /\ cache' = CacheClear(cache)
    /\ lastOp' = Call("clear", NoKey, Null, 0, Null, "none", 0)
    /\ opCount' = opCount + 1
    /\ UNCHANGED <<taskVars, shaperVars, now, fetches, dedupVars, retryVars>>

(***************************************************************************)
(* cachedFetch(key, fetcher, ttlMs).  The call runs to its await at line   *)
(* 74 in one step; the fetcher's promise settles in a later step, and the  *)
(* rest of the function runs then.                                         *)
(***************************************************************************)
\* (mutant) a miss that waits for the call of the same key that is already
\* waiting for its fetcher, and invokes nothing.
FetchCallCoalesced(f, key, ttlMs) ==
    /\ opCount < MaxOps
    /\ fetches[f].pc = "idle"
    /\ \A g \in 1..(f - 1) : fetches[g].pc # "idle"
    /\ LET cached == CacheGet(cache, key, now)
           after == CacheAfterGet(cache, key, now)
           pending == \E g \in 1..MaxFetches :
                         fetches[g].pc = "awaiting" /\ fetches[g].key = key
       IN  /\ cache' = after
           /\ fetches' = [fetches EXCEPT ![f] =
                  IF cached # Null
                  THEN Fetch("returned", key, ttlMs, cached, 0, after)
                  ELSE Fetch("awaiting", key, ttlMs, Null,
                             IF pending THEN 0 ELSE 1, after)]
           /\ lastOp' = Call("cachedFetch", key, Null, ttlMs, cached,
                             Found(cache, key, now), f)
    /\ opCount' = opCount + 1
    /\ UNCHANGED <<taskVars, shaperVars, now, dedupVars, retryVars>>

\* Lines 69-74: the lookup, and the return of a hit or the start of the fetcher.
\* Calls are numbered in the order they are made.
FetchCall(f, key, ttlMs) ==
    /\ opCount < MaxOps
    /\ fetches[f].pc = "idle"
    /\ \A g \in 1..(f - 1) : fetches[g].pc # "idle"
    /\ LET cached == CacheGet(cache, key, now)
           after == CacheAfterGet(cache, key, now)
       IN  /\ cache' = after
           /\ fetches' = [fetches EXCEPT ![f] =
                  IF cached # Null
                  THEN Fetch("returned", key, ttlMs, cached, 0, after)
                  ELSE Fetch("awaiting", key, ttlMs, Null, 1, after)]
           /\ lastOp' = Call("cachedFetch", key, Null, ttlMs, cached,
                             Found(cache, key, now), f)
    /\ opCount' = opCount + 1
    /\ UNCHANGED <<taskVars, shaperVars, now, dedupVars, retryVars>>

\* (mutant) a result that is stored only when the key has no entry yet.
FetchResolveFirstWins(f, result) ==
    /\ fetches[f].pc = "awaiting"
    /\ cache' = IF MapHas(cache, fetches[f].key)
                THEN cache
                ELSE CacheSet(cache, fetches[f].key, result, fetches[f].ttl, now)
    /\ fetches' = [fetches EXCEPT ![f].pc = "returned", ![f].ret = result]
    /\ lastOp' = Call("cachedFetch.resolve", fetches[f].key, result, fetches[f].ttl,
                      result, "none", f)
    /\ UNCHANGED <<taskVars, shaperVars, now, opCount, dedupVars, retryVars>>

\* Lines 74-76: the fetcher's promise is fulfilled with result.
FetchResolve(f, result) ==
    /\ fetches[f].pc = "awaiting"
    /\ cache' = CacheSet(cache, fetches[f].key, result, fetches[f].ttl, now)
    /\ fetches' = [fetches EXCEPT ![f].pc = "returned", ![f].ret = result]
    /\ lastOp' = Call("cachedFetch.resolve", fetches[f].key, result, fetches[f].ttl,
                      result, "none", f)
    /\ UNCHANGED <<taskVars, shaperVars, now, opCount, dedupVars, retryVars>>

\* (mutant) a failure stored in the cache like a result.
FetchRejectStores(f, error) ==
    /\ fetches[f].pc = "awaiting"
    /\ cache' = CacheSet(cache, fetches[f].key, error, fetches[f].ttl, now)
    /\ fetches' = [fetches EXCEPT ![f].pc = "threw", ![f].ret = error]
    /\ lastOp' = Call("cachedFetch.reject", fetches[f].key, error, fetches[f].ttl,
                      error, "none", f)
    /\ UNCHANGED <<taskVars, shaperVars, now, opCount, dedupVars, retryVars>>

\* Line 74: the fetcher's promise is rejected with error; the await throws.
FetchReject(f, error) ==
    /\ fetches[f].pc = "awaiting"
    /\ fetches' = [fetches EXCEPT ![f].pc = "threw", ![f].ret = error]
    /\ lastOp' = Call("cachedFetch.reject", fetches[f].key, error, fetches[f].ttl,
                      error, "none", f)
    /\ UNCHANGED <<taskVars, shaperVars, now, cache, opCount, dedupVars, retryVars>>

\* The clock advances; nothing of the cache runs.
Tick ==
    /\ now < MaxNow
    /\ now' = now + 1
    /\ lastOp' = Call("tick", NoKey, Null, 0, Null, "none", 0)
    /\ UNCHANGED <<taskVars, shaperVars, cache, fetches, opCount, dedupVars, retryVars>>

\* The cache used directly.
NextCache ==
    \/ \E first \in {"", "1"} : Populate(first, maxSize)
    \/ \E key \in Keys, data \in Values, ttlMs \in TTLs : Set(key, data, ttlMs)
    \/ \E key \in Keys : Get(key)
    \/ \E key \in Keys : Has(key)
    \/ \E key \in Keys : Delete(key)
    \/ Clear
    \/ Tick

SpecCache == Init /\ [][NextCache]_vars

\* The cache under writes: sets of keys that are stored (the oldest, "" or
\* "1", and the second oldest, "2") and of a key that is not ("x").
SetKeys == {"", "1", "2", "x"}

NextEvict ==
    \/ \E first \in {"", "1"} : Populate(first, maxSize)
    \/ \E key \in SetKeys, data \in {"A", "B"}, ttlMs \in TTLs : Set(key, data, ttlMs)
    \/ Tick

SpecEvict == Init /\ [][NextEvict]_vars

\* The cache under a longer run of sets: all but one place taken, then sets
\* of the oldest key ("" or "1"), of the next one ("2") and of new keys.
SetInRun(key, data, ttlMs) ==
    /\ opCount < MaxOrderOps
    /\ cache' = CacheSet(cache, key, data, ttlMs, now)
    /\ lastOp' = [Call("set", key, data, ttlMs, Null, Found(cache, key, now), 0)
                     EXCEPT !.oldest = IF cache = << >> THEN NoEntry ELSE cache[1]]
    /\ opCount' = opCount + 1
    /\ UNCHANGED <<taskVars, shaperVars, now, fetches, dedupVars, retryVars>>

NextOrder ==
    \/ \E first \in {"", "1"} : Populate(first, maxSize - 1)
    \/ \E key \in {"", "1", "2", "x", "y"} : SetInRun(key, "B", 1)
    \/ Tick

SpecOrder == Init /\ [][NextOrder]_vars

\* The cache used through cachedFetch, next to direct writers.
NextFetch ==
    \/ Populate("1", maxSize)
    \/ \E key \in FetchKeys, data \in {Null, "A"} : Set(key, data, 1)
    \/ \E f \in 1..MaxFetches, key \in FetchKeys, ttlMs \in TTLs :
          FetchCall(f, key, ttlMs)
    \/ \E f \in 1..MaxFetches, result \in Values : FetchResolve(f, result)
    \/ \E f \in 1..MaxFetches, error \in Errors : FetchReject(f, error)
    \/ Tick

SpecFetch == Init /\ [][NextFetch]_vars

(***************************************************************************)
(* deduplicatedFetch(key, fetcher).  The call is one step; the fetcher's   *)
(* promise settles in a later step (an event of the environment), the      *)
(* finally callback runs in a step after that, the promise of line 89      *)
(* settles in a step after that, and each caller sees the outcome in a     *)
(* step of its own.                                                        *)
(***************************************************************************)
\* pendingRequests.has(key), line 85.
PendingHas(pending, key) == pending[key] # 0

\* (mutant) a call that never joins a pending request.
DedupCallAlone(c, key, thrown) ==
    /\ callers[c].pc = "idle"
    /\ \A d \in 1..(c - 1) : callers[d].pc # "idle"
    /\ Len(requests) < MaxRequests
    /\ LET live == {r \in DOMAIN requests :
                       requests[r].key = key
                       /\ requests[r].phase \in {"running", "settled"}}
           new == Len(requests) + 1
       IN  /\ requests' = Append(requests, Request(key, "running", Unsettled))
           /\ pendingRequests' = [pendingRequests EXCEPT ![key] = new]
           /\ callers' = [callers EXCEPT ![c] =
                  Caller("waiting", key, new, TRUE, Unsettled, live)]
    /\ UNCHANGED <<taskVars, shaperVars, cacheVars, retryVars>>

\* Lines 85-94.  thrown is NoThrow when the fetcher returns a promise, and an
\* error when the fetcher throws before returning one: deduplicatedFetch, an
\* async function, then returns a promise rejected with it and records nothing.
\* Calls are numbered in the order they are made.
DedupCall(c, key, thrown) ==
    /\ callers[c].pc = "idle"
    /\ \A d \in 1..(c - 1) : callers[d].pc # "idle"
    /\ LET live == {r \in DOMAIN requests :
                       requests[r].key = key
                       /\ requests[r].phase \in {"running", "settled"}}
           new == Len(requests) + 1
       IN  IF PendingHas(pendingRequests, key)
           THEN /\ callers' = [callers EXCEPT ![c] =
                       Caller("waiting", key, pendingRequests[key], FALSE, Unsettled, live)]
                /\ UNCHANGED <<pendingRequests, requests>>
           ELSE /\ Len(requests) < MaxRequests
                /\ IF thrown = NoThrow
                   THEN /\ requests' = Append(requests, Request(key, "running", Unsettled))
                        /\ pendingRequests' = [pendingRequests EXCEPT ![key] = new]
                   ELSE /\ requests' = Append(requests, Request(key, "done", Rejected(thrown)))
                        /\ UNCHANGED pendingRequests
                /\ callers' = [callers EXCEPT ![c] =
                       Caller("waiting", key, new, TRUE, Unsettled, live)]
    /\ UNCHANGED <<taskVars, shaperVars, cacheVars, retryVars>>

\* The promise the fetcher returned settles with outcome.
FetcherSettles(r, outcome) ==
    /\ r \in DOMAIN requests
    /\ requests[r].phase = "running"
    /\ requests' = [requests EXCEPT ![r].phase = "settled", ![r].outcome = outcome]
    /\ UNCHANGED <<taskVars, shaperVars, cacheVars, retryVars, pendingRequests, callers>>

\* (mutant) the entry removed by then() instead of finally(): on success only.
FinallyOnSuccess(r) ==
    /\ r \in DOMAIN requests
    /\ requests[r].phase = "settled"
    /\ pendingRequests' = IF requests[r].outcome.kind = "value"
                          THEN [pendingRequests EXCEPT ![requests[r].key] = 0]
                          ELSE pendingRequests
    /\ requests' = [requests EXCEPT ![r].phase = "cleared"]
    /\ UNCHANGED <<taskVars, shaperVars, cacheVars, retryVars, callers>>

\* (mutant) the entry removed on failure only: a result stays in the registry.
FinallyKeepsResult(r) ==
    /\ r \in DOMAIN requests
    /\ requests[r].phase = "settled"
    /\ pendingRequests' = IF requests[r].outcome.kind = "error"
                          THEN [pendingRequests EXCEPT ![requests[r].key] = 0]
                          ELSE pendingRequests
    /\ requests' = [requests EXCEPT ![r].phase = "cleared"]
    /\ UNCHANGED <<taskVars, shaperVars, cacheVars, retryVars, callers>>

\* (mutant) a finally callback that empties the registry.
FinallyClears(r) ==
    /\ r \in DOMAIN requests
    /\ requests[r].phase = "settled"
    /\ pendingRequests' = [k \in DedupKeys |-> 0]
    /\ requests' = [requests EXCEPT ![r].phase = "cleared"]
    /\ UNCHANGED <<taskVars, shaperVars, cacheVars, retryVars, callers>>

\* Lines 89-91: the finally callback runs and deletes the key's entry.  The
\* promise of line 89 is still pending when it returns.
Finally(r) ==
    /\ r \in DOMAIN requests
    /\ requests[r].phase = "settled"
    /\ pendingRequests' = [pendingRequests EXCEPT ![requests[r].key] = 0]
    /\ requests' = [requests EXCEPT ![r].phase = "cleared"]
    /\ UNCHANGED <<taskVars, shaperVars, cacheVars, retryVars, callers>>

\* Line 89: after its callback has returned, in a later job of the microtask
\* queue, the promise finally() made settles as the fetcher's promise did.
\* Other callbacks, and calls made by them, run in between.
FinallySettles(r) ==
    /\ r \in DOMAIN requests
    /\ requests[r].phase = "cleared"
    /\ requests' = [requests EXCEPT ![r].phase = "done"]
    /\ UNCHANGED <<taskVars, shaperVars, cacheVars, retryVars, pendingRequests, callers>>

\* A caller awaiting the promise it was given sees its outcome.
Observe(c) ==
    /\ callers[c].pc = "waiting"
    /\ requests[callers[c].promise].phase = "done"
    /\ callers' = [callers EXCEPT ![c].pc = "got",
                                  ![c].ret = requests[callers[c].promise].outcome]
    /\ UNCHANGED <<taskVars, shaperVars, cacheVars, retryVars, pendingRequests, requests>>

NextDedup ==
    \/ \E c \in 1..MaxCallers, key \in DedupKeys, thrown \in {NoThrow} \cup Errors :
          DedupCall(c, key, thrown)
    \/ \E r \in 1..MaxRequests, outcome \in Outcomes : FetcherSettles(r, outcome)
    \/ \E r \in 1..MaxRequests : Finally(r)
    \/ \E r \in 1..MaxRequests : FinallySettles(r)
    \/ \E c \in 1..MaxCallers : Observe(c)

SpecDedup == Init /\ [][NextDedup]_vars

\* The event loop runs every queued callback.
SpecDedupFair ==
    SpecDedup /\ \A r \in 1..MaxRequests : WF_vars(Finally(r)) /\ WF_vars(FinallySettles(r))

(***************************************************************************)
(* withExponentialBackoff(fn, maxRetries, initialDelayMs).  The function   *)
(* runs from one await to the next in one step; fn's promise settles and   *)
(* the timer of line 138 fires in steps of the environment, at their time  *)
(* or later.                                                               *)
(***************************************************************************)
\* (mutant) a loop that stops one attempt early.
LoopGoesOnShort(attempt, maxRetries) == Less(attempt, maxRetries)

\* Line 133: the loop condition.
LoopGoesOn(attempt, maxRetries) == LessEq(attempt, maxRetries)

\* (mutant) no attempt is the last: a failure is never thrown on.
LastAttemptNever(attempt, maxRetries) == FALSE

\* Line 137: the failure of the last attempt is thrown.
LastAttempt(attempt, maxRetries) == StrictEq(attempt, maxRetries)

\* (mutant) a delay that is not doubled.
NextDelaySame(delay) == delay

\* Line 139.
NextDelay(delay) == delay * 2

\* The invocations and the waits of a call are recorded up to MaxInvocations
\* of them: a later one is recorded in the place of the last.  A call with a
\* finite maxRetries never gets that far.
Recorded(seq, x) ==
    IF Len(seq) < MaxInvocations THEN Append(seq, x)
    ELSE [seq EXCEPT ![Len(seq)] = x]

\* attempt++, counted up to MaxInvocations.
NextAttempt(attempt) == IF attempt < MaxInvocations THEN attempt + 1 ELSE attempt

\* The call has gone round more often than is recorded.
Cut == retry.attempt >= MaxInvocations

\* Lines 133-135 and 143: the loop test with attempt and delay as given, then
\* either the invocation of fn or the throw after the loop.
EnterLoop(maxRetries, initialDelayMs, attempt, delay) ==
    IF LoopGoesOn(attempt, maxRetries)
    THEN /\ retry' = Retry("awaiting", maxRetries, initialDelayMs, attempt, delay, 0,
                           Unsettled)
         /\ invocations' = Recorded(invocations, Invocation(now, now, Unsettled))
    ELSE /\ retry' = Retry("threw", maxRetries, initialDelayMs, attempt, delay, 0,
                           MaxRetriesExceeded)
         /\ UNCHANGED invocations

\* Lines 131-135: the call, up to its first await.
BackoffCall(maxRetries, initialDelayMs) ==
    /\ retry.pc = "idle"
    /\ EnterLoop(maxRetries, initialDelayMs, 0, initialDelayMs)
    /\ UNCHANGED <<taskVars, shaperVars, cacheVars, dedupVars, waits>>

\* (mutant) a success that is followed by the wait and another attempt.
FnResolvesGoesOn(v) ==
    /\ retry.pc = "awaiting"
    /\ invocations' = [invocations EXCEPT ![Len(invocations)].out = Fulfilled(v),
                                          ![Len(invocations)].ended = now]
    /\ IF LastAttempt(retry.attempt, retry.maxRetries)
       THEN /\ retry' = [retry EXCEPT !.pc = "returned", !.ret = Fulfilled(v)]
            /\ UNCHANGED waits
       ELSE /\ retry' = [retry EXCEPT !.pc = "sleeping", !.wake = now + retry.delay]
            /\ waits' = Recorded(waits, retry.delay)
    /\ UNCHANGED <<taskVars, shaperVars, cacheVars, dedupVars>>

\* Line 135: fn's promise is fulfilled with v, which is returned.
FnResolves(v) ==
    /\ retry.pc = "awaiting"
    /\ invocations' = [invocations EXCEPT ![Len(invocations)].out = Fulfilled(v),
                                          ![Len(invocations)].ended = now]
    /\ retry' = [retry EXCEPT !.pc = "returned", !.ret = Fulfilled(v)]
    /\ UNCHANGED <<taskVars, shaperVars, cacheVars, dedupVars, waits>>

\* Lines 136-138: fn throws or its promise is rejected; the error is thrown on
\* if this was the last attempt, and the timer is set otherwise.
FnRejects ==
    /\ retry.pc = "awaiting"
    /\ LET error == FailureOf(Len(invocations))
       IN  /\ invocations' = [invocations EXCEPT ![Len(invocations)].out = error,
                                                 ![Len(invocations)].ended = now]
           /\ IF LastAttempt(retry.attempt, retry.maxRetries)
              THEN /\ retry' = [retry EXCEPT !.pc = "threw", !.ret = error]
                   /\ UNCHANGED waits
              ELSE /\ retry' = [retry EXCEPT !.pc = "sleeping",
                                             !.wake = now + retry.delay]
                   /\ waits' = Recorded(waits, retry.delay)
    /\ UNCHANGED <<taskVars, shaperVars, cacheVars, dedupVars>>

\* The time the clock has gone on for other things than the waits: while fn
\* was running, and after a timer's time had come with the timer not run yet.
RECURSIVE SumOf(_)
SumOf(seq) == IF seq = << >> THEN 0 ELSE Head(seq) + SumOf(Tail(seq))

Late == now - SumOf(waits)

\* Time passes: while the timer runs, and also while fn runs and while the
\* timer, its time come, has not run yet (setTimeout gives the least delay).
TimePasses ==
    /\ retry.pc \in {"awaiting", "sleeping"}
    /\ \/ retry.pc = "sleeping" /\ now < retry.wake
       \/ Late < MaxLate * TimerStep
    /\ now' = now + TimerStep
    /\ UNCHANGED <<taskVars, shaperVars, cache, lastOp, fetches, opCount, dedupVars, retryVars>>

\* Lines 138-139 and 133-135: the timer fires, the delay is doubled, and the
\* loop goes round.
TimerFires ==
    /\ retry.pc = "sleeping"
    /\ now >= retry.wake
    /\ EnterLoop(retry.maxRetries, retry.initialDelayMs, NextAttempt(retry.attempt),
                 NextDelay(retry.delay))
    /\ UNCHANGED <<taskVars, shaperVars, cacheVars, dedupVars, waits>>

NextBackoff ==
    \/ \E args \in BackoffArgs : BackoffCall(args[1], args[2])
    \/ \E v \in {"A", "B"} : FnResolves(v)
    \/ FnRejects
    \/ TimePasses
    \/ TimerFires

SpecBackoff == Init /\ [][NextBackoff]_vars

\* Line 135: the promise of fn settles, one way or the other.
FnSettles == FnRejects \/ \E v \in {"A", "B"} : FnResolves(v)

\* Every invocation of fn completes, and every timer set at line 138 runs out.
SpecBackoffFair ==
    SpecBackoff /\ WF_vars(FnSettles) /\ WF_vars(TimePasses) /\ WF_vars(TimerFires)

(***************************************************************************)
(* throttle (lines 97-112).                                                *)
(***************************************************************************)
\* Lines 100-103: throttle(fn, delayMs) makes the closure.  Date.now() counts
\* from the epoch, so the closure can be made, and first called, at any time.
ThrottleMake(delayMs) ==
    /\ throttled.pc = "none"
    /\ throttled' = Throttle("made", delayMs)
    /\ UNCHANGED <<taskVars, cacheVars, dedupVars, retryVars, thist, debounceVars, keyed>>

\* Line 105: if (now - lastCall >= delayMs).
WindowOver(t, at) == at - t.lastCall >= t.delayMs

\* Lines 103-111: one call of the throttled function with args, up to the
\* point where fn is entered.  A call inside the window returns lastResult
\* (line 110).  A call outside it sets lastCall (line 107) and then enters fn
\* (line 108): lastResult is assigned when fn has returned.  The call may come
\* from fn itself, while an execution is in progress.
ThrottledCall(args) ==
    /\ throttled.pc = "made"
    /\ thist.calls < MaxThrottleCalls
    /\ LET exec == WindowOver(throttled, now)
       IN /\ exec => Len(throttled.running) < MaxNesting
          /\ throttled' =
                IF exec
                THEN [throttled EXCEPT
                        !.lastCall = now,
                        !.running = Append(@, FnResult(thist.execs + 1, args))]
                ELSE throttled
          /\ thist' = [thist EXCEPT
                         !.calls = @ + 1,
                         !.execs = IF exec THEN @ + 1 ELSE @,
                         !.lastExecAt = IF exec THEN now ELSE @,
                         !.lastExec = IF exec THEN FnResult(thist.execs + 1, args)
                                      ELSE @,
                         !.run = IF exec THEN 1 ELSE @ + 1,
                         !.at = now, !.args = args, !.executed = exec,
                         !.nested = IF throttled.running # << >> THEN @ + 1 ELSE @,
                         !.ret = IF exec THEN @ ELSE throttled.lastResult]
    /\ UNCHANGED <<taskVars, cacheVars, dedupVars, retryVars, debounceVars, keyed>>

\* The execution of fn that is innermost.
Innermost(t) == t.running[Len(t.running)]
Outer(t) == SubSeq(t.running, 1, Len(t.running) - 1)

\* Line 108: fn returns and its result is assigned to lastResult; line 110
\* returns it.
FnReturns ==
    /\ throttled.pc = "made"
    /\ throttled.running # << >>
    /\ throttled' = [throttled EXCEPT !.lastResult = Innermost(throttled),
                                      !.running = Outer(throttled)]
    /\ thist' = [thist EXCEPT !.ret = Innermost(throttled),
                              !.returned = @ + 1]
    /\ UNCHANGED <<taskVars, cacheVars, dedupVars, retryVars, debounceVars, keyed>>

\* Line 108: fn throws.  The assignment does not happen and the call throws:
\* lastCall keeps the time of this call and lastResult the result of an
\* earlier execution.
FnThrows ==
    /\ throttled.pc = "made"
    /\ throttled.running # << >>
    /\ throttled' = [throttled EXCEPT !.running = Outer(throttled)]
    /\ thist' = [thist EXCEPT !.ret = Thrown, !.thrown = @ + 1]
    /\ UNCHANGED <<taskVars, cacheVars, dedupVars, retryVars, debounceVars, keyed>>

\* Time passes between the calls, and while fn runs.
ThrottleTick ==
    /\ now < MaxThrottleNow
    /\ now' = now + 1
    /\ UNCHANGED <<taskVars, cache, lastOp, fetches, opCount, dedupVars, retryVars, shaperVars>>

NextThrottle ==
    \/ \E delayMs \in Delays : ThrottleMake(delayMs)
    \/ \E args \in Args : ThrottledCall(args)
    \/ FnReturns
    \/ FnThrows
    \/ ThrottleTick

SpecThrottle == Init /\ [][NextThrottle]_vars

(***************************************************************************)
(* debounce (lines 114-124).  A timer runs at its time or later: the       *)
(* clock may move on, and calls may be made, while a timer is due.         *)
(***************************************************************************)
\* Lines 117-119: debounce(fn, delayMs) makes the closure.
DebounceMake(delayMs) ==
    /\ debounced.pc = "none"
    /\ debounced' = Debounce("made", delayMs)
    /\ UNCHANGED <<taskVars, cacheVars, dedupVars, retryVars, throttleVars, timers, fired, keyed>>

\* A timer is waiting for its time.
Armed(ts) == {i \in DOMAIN ts : ts[i].state = "armed"}
Due(ts, t) == {i \in Armed(ts) : ts[i].due <= t}

\* clearTimeout(id) with the timer kept: what line 121 must not be.
ClearTimeoutKeeps(ts, id) == ts

\* Line 121: clearTimeout(timeoutId); nothing happens to a timer that ran.
ClearTimeout(ts, id) ==
    IF id \in Armed(ts) THEN [ts EXCEPT ![id].state = "cleared"] ELSE ts

\* Line 122: setTimeout(() => fn(...args), delayMs) at time t.
SetTimeout(ts, args, delayMs, t) == Append(ts, Timer(t, t + delayMs, args, "armed"))

\* Lines 120-123: one call of the debounced function with args.
DebouncedCall(args) ==
    /\ debounced.pc = "made"
    /\ Len(timers) < MaxDebounceCalls
    /\ LET cleared == IF debounced.timeoutId # 0
                      THEN ClearTimeout(timers, debounced.timeoutId)
                      ELSE timers
       IN /\ timers' = SetTimeout(cleared, args, debounced.delayMs, now)
          /\ debounced' = [debounced EXCEPT !.timeoutId = Len(timers) + 1]
    /\ UNCHANGED <<taskVars, cacheVars, dedupVars, retryVars, throttleVars, fired, keyed>>

\* Line 122: the timer i runs its callback, fn(...args) with the args of the
\* call that set it.  timeoutId is left as it is.
DebounceFires(i) ==
    /\ i \in Due(timers, now)
    /\ timers' = [timers EXCEPT ![i].state = "fired"]
    /\ fired' = Append(fired, [timer |-> i, at |-> now, args |-> timers[i].args])
    /\ UNCHANGED <<taskVars, cacheVars, dedupVars, retryVars, throttleVars, debounced, keyed>>

\* Time passes, whether a timer is due or not.
DebounceTick ==
    /\ now < MaxDebounceNow
    /\ now' = now + 1
    /\ UNCHANGED <<taskVars, cache, lastOp, fetches, opCount, dedupVars, retryVars, shaperVars>>

NextDebounce ==
    \/ \E delayMs \in Delays : DebounceMake(delayMs)
    \/ \E args \in Args : DebouncedCall(args)
    \/ \E i \in 1..MaxDebounceCalls : DebounceFires(i)
    \/ DebounceTick

SpecDebounce == Init /\ [][NextDebounce]_vars

\* The event loop runs every timer whose time has come, if it is not cleared.
SpecDebounceFair ==
    SpecDebounce /\ \A i \in 1..MaxDebounceCalls : WF_vars(DebounceFires(i))

(***************************************************************************)
(* deduplicatedFetch with a fetcher that calls deduplicatedFetch for the   *)
(* same key before it returns its promise (SpecNested).                    *)
(***************************************************************************)
\* Lines 85-94, twice: call c finds no entry and invokes its fetcher (line 89);
\* the fetcher, before it returns, makes call c + 1 for the same key, which
\* finds no entry either (line 85), invokes its own fetcher and records its
\* promise (line 93); then the outer fetcher returns and call c records its
\* promise over that one (line 93).  All of it is one synchronous run.
DedupCallNested(c, key) ==
    /\ c + 1 <= MaxCallers
    /\ callers[c].pc = "idle"
    /\ \A d \in 1..(c - 1) : callers[d].pc # "idle"
    /\ ~PendingHas(pendingRequests, key)
    /\ Len(requests) + 2 <= MaxRequests
    /\ LET live == {r \in DOMAIN requests :
                       requests[r].key = key
                       /\ requests[r].phase \in {"running", "settled"}}
           outer == Len(requests) + 1
           inner == Len(requests) + 2
       IN  /\ requests' = requests \o <<Request(key, "running", Unsettled),
                                         Request(key, "running", Unsettled)>>
           /\ pendingRequests' = [[pendingRequests EXCEPT ![key] = inner]
                                     EXCEPT ![key] = outer]
           /\ callers' = [callers EXCEPT
                  ![c] = Caller("waiting", key, outer, TRUE, Unsettled, live),
                  ![c + 1] = Caller("waiting", key, inner, TRUE, Unsettled,
                                    live \cup {outer})]
    /\ UNCHANGED <<taskVars, shaperVars, cacheVars, retryVars>>

NextNested ==
    \/ NextDedup
    \/ \E c \in 1..MaxCallers, key \in DedupKeys : DedupCallNested(c, key)

SpecNested == Init /\ [][NextNested]_vars

(***************************************************************************)
(* createCacheKey (lines 60-62).  A string is the sequence of its          *)
(* characters; a part is a string, a number or a boolean.                  *)
(***************************************************************************)
Str(s) == [t |-> "string", str |-> s, num |-> 0, bool |-> FALSE]
Num(n) == [t |-> "number", str |-> << >>, num |-> n, bool |-> FALSE]
Bool(b) == [t |-> "boolean", str |-> << >>, num |-> 0, bool |-> b]

PartValues ==
    {Str(<< >>), Str(<<"1">>), Str(<<"a">>), Str(<<"a", ":", "a">>),
     Str(<<"t", "r", "u", "e">>), Num(1), Num(-12), Bool(TRUE)}

PartLists == UNION {[1..n -> PartValues] : n \in 0..MaxParts}

\* Number.prototype.toString of an integer.
RECURSIVE Digits(_)
Digits(n) ==
    LET digit == <<"0", "1", "2", "3", "4", "5", "6", "7", "8", "9">>
    IN  IF n < 10 THEN <<digit[n + 1]>> ELSE Digits(n \div 10) \o <<digit[(n % 10) + 1]>>

\* The string Array.prototype.join makes of one element.
ToStr(part) ==
    CASE part.t = "string" -> part.str
      [] part.t = "number" ->
            IF part.num < 0 THEN <<"-">> \o Digits(0 - part.num) ELSE Digits(part.num)
      [] part.t = "boolean" ->
            IF part.bool THEN <<"t", "r", "u", "e">> ELSE <<"f", "a", "l", "s", "e">>

\* Line 61: parts.join(':').
RECURSIVE Join(_)
Join(parts) ==
    IF parts = << >> THEN << >>
    ELSE IF Len(parts) = 1 THEN ToStr(parts[1])
    ELSE ToStr(parts[1]) \o <<":">> \o Join(Tail(parts))

createCacheKey(parts) == Join(parts)

\* One call of createCacheKey; the last two calls are kept.
KeyCall(parts) ==
    /\ keyed' = LET call == [parts |-> parts, key |-> createCacheKey(parts)]
                IN  IF Len(keyed) < 2 THEN Append(keyed, call) ELSE <<keyed[2], call>>
    /\ UNCHANGED <<taskVars, cacheVars, dedupVars, retryVars, throttleVars, debounceVars>>

NextKey == \E parts \in PartLists : KeyCall(parts)

SpecKey == Init /\ [][NextKey]_vars

(***************************************************************************)
(* Properties of deduplicatedFetch (SpecDedup, SpecDedupFair).             *)
(***************************************************************************)
\* The calls that were given the promise of request r.
Joined(r) == {c \in 1..MaxCallers : callers[c].pc # "idle" /\ callers[c].promise = r}

\* C1 (coalescing law): a call made while a request of its key is outstanding is
\* given that request's promise and does not invoke its fetcher, so that each
\* request is one invocation, made by one of the calls holding its promise; and
\* every call holding the promise sees the outcome of that one invocation, the
\* same value or the same failure.
C1_Coalescing ==
    /\ \A c \in 1..MaxCallers :
          (callers[c].pc # "idle" /\ callers[c].live # {})
          => /\ ~callers[c].started
             /\ callers[c].live = {callers[c].promise}
    /\ \A r \in DOMAIN requests :
          /\ Cardinality({c \in Joined(r) : callers[c].started}) = 1
          /\ \A c \in Joined(r) :
                /\ callers[c].key = requests[r].key
                /\ callers[c].pc = "got"
                   => /\ requests[r].outcome # Unsettled
                      /\ callers[c].ret = requests[r].outcome

\* Three calls of one key were made before the first one's fetcher had settled,
\* the fetcher failed, and all three have seen that one failure.
C1_Witness ==
    /\ Len(requests) = 1
    /\ Joined(1) = 1..MaxCallers
    /\ \A c \in 2..MaxCallers : callers[c].live = {1}
    /\ \A c \in 1..MaxCallers : callers[c].pc = "got" /\ callers[c].ret = Rejected("E2")

\* The requests of key that are outstanding: the fetcher's promise is pending,
\* or it has settled and the finally callback has not run yet.
Outstanding(key) ==
    {r \in DOMAIN requests :
        requests[r].key = key /\ requests[r].phase \in {"running", "settled"}}

\* Request r has been made and the registry holds its promise.
HasEntry(r) ==
    IF r \in DOMAIN requests THEN pendingRequests[requests[r].key] = r ELSE FALSE

\* The fetcher of request r has settled and the registry holds its promise.
SettledWithEntry(r) ==
    IF r \in DOMAIN requests THEN requests[r].phase = "settled" /\ HasEntry(r) ELSE FALSE

\* C2 (pending-registry cleanup): the registry holds an entry for a key exactly
\* when a request of that key is outstanding, and the entry is that request's
\* promise; no caller has seen the outcome of a request whose entry is still in
\* the registry; and once a fetcher has settled, by success or by failure, the
\* entry of its key leaves the registry.
C2_Cleanup ==
    /\ [](\A key \in DedupKeys :
            /\ PendingHas(pendingRequests, key) <=> Outstanding(key) # {}
            /\ PendingHas(pendingRequests, key)
               => Outstanding(key) = {pendingRequests[key]})
    /\ [](\A c \in 1..MaxCallers :
            callers[c].pc = "got"
            => pendingRequests[callers[c].key] # callers[c].promise)
    /\ \A r \in 1..MaxRequests : SettledWithEntry(r) ~> ~HasEntry(r)

\* A fetcher failed, its entry has left the registry, and a caller has seen the
\* failure, while the request of the other key is still in the registry.
C2_Witness ==
    /\ \E c \in 1..MaxCallers :
          /\ callers[c].pc = "got"
          /\ callers[c].ret.kind = "error"
          /\ requests[callers[c].promise].phase = "done"
          /\ ~PendingHas(pendingRequests, callers[c].key)
    /\ \E key \in DedupKeys : PendingHas(pendingRequests, key)

(***************************************************************************)
(* Properties of MemoryCache (SpecCache).                                  *)
(***************************************************************************)
\* An entry e has outlived its ttl at time t.
Stale(e, t) == t - e.timestamp > e.ttl

\* C3 (capacity law): a set of a key that is not stored, made when the cache
\* holds maxSize keys, makes exactly one stored key unreachable, and that key is
\* the one inserted earliest, whatever was read before and whatever the entries'
\* remaining ttl.
C3_CapacityLaw ==
    [][(/\ lastOp'.op = "set"
        /\ Len(cache) = maxSize
        /\ lastOp'.key \notin KeysOf(cache))
       => KeysOf(cache) \ KeysOf(cache') = {cache[1].key}]_vars

\* C4 (population bound): size() never exceeds maxSize.
C4_PopulationBound == CacheSize(cache) <= maxSize

\* C5 (expiry): a get never returns the value of an entry that has outlived its
\* ttl; a get or has that finds such an entry deletes it and answers absent, and
\* size() is one less afterwards; and a stale entry leaves the cache only by a
\* read of its key, a delete of its key, a clear, or the eviction of the oldest
\* entry by a set on a full cache (never by the clock).
C5_Expiry ==
    [][LET op == lastOp'.op
           k == lastOp'.key
       IN  /\ (op \in {"get", "has"} /\ MapHas(cache, k) /\ Stale(MapGet(cache, k), now))
                => /\ lastOp'.ret = (IF op = "get" THEN Null ELSE "false")
                   /\ ~MapHas(cache', k)
                   /\ CacheSize(cache') = CacheSize(cache) - 1
           /\ (op = "get" /\ lastOp'.ret # Null)
                => /\ MapHas(cache, k)
                   /\ ~Stale(MapGet(cache, k), now)
                   /\ lastOp'.ret = MapGet(cache, k).data
           /\ (cache' # cache /\ op # "clear")
                => \A gone \in KeysOf(cache) \ KeysOf(cache') :
                     Stale(MapGet(cache, gone), now)
                     => \/ op \in {"get", "has", "delete"} /\ k = gone
                        \/ op = "set" /\ Len(cache) >= maxSize /\ gone = cache[1].key]_vars

\* A get has just found an expired entry, answered absent and removed it.
C5_Witness ==
    /\ lastOp.op = "get"
    /\ lastOp.found = "expired"
    /\ lastOp.ret = Null
    /\ ~MapHas(cache, lastOp.key)
    /\ CacheSize(cache) = lastOp.size - 1

\* C6 (set/get round trip): right after set(key, value, ttl) with ttl > 0, with
\* no time elapsed, get(key) returns value, whatever the cache held before.
C6_RoundTrip ==
    (lastOp.op = "set" /\ lastOp.ttl > 0)
    => CacheGet(cache, lastOp.key, now) = lastOp.data

\* A set has just been made on a full cache, with the key of the oldest entry:
\* the entry was evicted and inserted again, and get returns the new value.
C6_Witness ==
    /\ lastOp.op = "set"
    /\ lastOp.ttl > 0
    /\ lastOp.size = maxSize
    /\ lastOp.found # "none"
    /\ CacheSize(cache) = maxSize
    /\ cache[Len(cache)].key = lastOp.key
    /\ lastOp.data = "B"
    /\ CacheGet(cache, lastOp.key, now) = "B"

(***************************************************************************)
(* Properties of cachedFetch (SpecFetch).                                  *)
(***************************************************************************)
\* C7 (cache-aside): a cachedFetch whose key is stored and not expired returns
\* the stored value, does not invoke the fetcher and leaves the cache as it is;
\* any other cachedFetch invokes the fetcher once, and when the fetcher succeeds
\* its result is stored under the key with the given ttl and returned.
C7_CacheAside ==
    [][LET k == lastOp'.key
           f == lastOp'.fid
       IN  /\ lastOp'.op = "cachedFetch"
                => IF MapHas(cache, k) /\ ~Stale(MapGet(cache, k), now)
                   THEN /\ fetches'[f].pc = "returned"
                        /\ fetches'[f].ret = MapGet(cache, k).data
                        /\ fetches'[f].invoked = 0
                        /\ cache' = cache
                   ELSE /\ fetches'[f].pc = "awaiting"
                        /\ fetches'[f].invoked = 1
           /\ lastOp'.op = "cachedFetch.resolve"
                => /\ fetches'[f].pc = "returned"
                   /\ fetches'[f].ret = lastOp'.data
                   /\ fetches'[f].invoked = 1
                   /\ MapHas(cache', k)
                   /\ MapGet(cache', k) = Entry(k, lastOp'.data, now, fetches[f].ttl)]_vars

\* C8 (miss-then-fail): when the fetcher of a cachedFetch fails, the caller gets
\* that failure and the cache is left as it was; and a cachedFetch for the key of
\* a failed call, made while the cache is still as that call's lookup left it,
\* invokes its fetcher again.
C8_MissThenFail ==
    [][LET k == lastOp'.key
           f == lastOp'.fid
       IN  /\ lastOp'.op = "cachedFetch.reject"
                => /\ cache' = cache
                   /\ fetches'[f].pc = "threw"
                   /\ fetches'[f].ret = lastOp'.data
                   /\ fetches'[f].invoked = 1
           /\ (/\ lastOp'.op = "cachedFetch"
               /\ \E g \in 1..MaxFetches :
                     /\ fetches[g].pc = "threw"
                     /\ fetches[g].key = k
                     /\ fetches[g].seen = cache)
                => /\ fetches'[f].pc = "awaiting"
                   /\ fetches'[f].invoked = 1]_vars

\* A call has failed, and the next call for its key has invoked its fetcher.
C8_Witness ==
    /\ lastOp.op = "cachedFetch"
    /\ \E g \in 1..MaxFetches :
          /\ g < lastOp.fid
          /\ fetches[g].pc = "threw"
          /\ fetches[g].ret \in Errors
          /\ fetches[g].key = lastOp.key
          /\ fetches[g].seen = fetches[lastOp.fid].seen
    /\ fetches[lastOp.fid].pc = "awaiting"
    /\ fetches[lastOp.fid].invoked = 1

\* C16 (no coalescing): a cachedFetch call that misses invokes its own
\* fetcher, also while another call for the same key is waiting for its
\* fetcher; and when a fetcher's promise settles, its own call returns that
\* result (or throws that failure) and every other call stays as it was.
C16_NoCoalescing ==
    [][LET f == lastOp'.fid
       IN  /\ (lastOp'.op = "cachedFetch" /\ lastOp'.ret = Null)
                => /\ fetches'[f].pc = "awaiting"
                   /\ fetches'[f].invoked = 1
           /\ lastOp'.op = "cachedFetch.resolve"
                => /\ fetches'[f].pc = "returned"
                   /\ fetches'[f].ret = lastOp'.data
           /\ lastOp'.op \in {"cachedFetch.resolve", "cachedFetch.reject"}
                => \A g \in 1..MaxFetches : g # f => fetches'[g] = fetches[g]]_vars

\* Two calls for one key missed together, each invoked its fetcher, and each
\* returned the result of its own.
C16_Witness ==
    /\ fetches[1].key = fetches[2].key
    /\ fetches[1].pc = "returned" /\ fetches[2].pc = "returned"
    /\ fetches[1].invoked = 1 /\ fetches[2].invoked = 1
    /\ fetches[1].seen = fetches[2].seen
    /\ fetches[1].ret = "A" /\ fetches[2].ret = "B"
    /\ now = 0

(***************************************************************************)
(* Properties of withExponentialBackoff (SpecBackoff).                     *)
(***************************************************************************)
RECURSIVE Pow2(_)
Pow2(n) == IF n <= 0 THEN 1 ELSE 2 * Pow2(n - 1)

\* The invocations of fn that have failed.
Failed == {i \in DOMAIN invocations : invocations[i].out.kind = "error"}

\* C9 (backoff law): when fn has failed k times and then succeeded, with
\* k < maxRetries, the call returns the value of the success, fn was invoked
\* k + 1 times, the wait before the i-th retry was initialDelayMs * 2^(i-1), and
\* the i-th retry started no sooner than that wait after the failure before it.
C9_BackoffLaw ==
    LET n == Len(invocations)
        k == n - 1
    IN  (/\ n >= 1
         /\ invocations[n].out.kind = "value"
         /\ Failed = 1..k
         /\ ~Cut
         /\ Less(k, retry.maxRetries))
        => /\ retry.pc = "returned"
           /\ retry.ret = invocations[n].out
           /\ waits = [i \in 1..k |-> retry.initialDelayMs * Pow2(i - 1)]
           /\ \A i \in 1..k :
                 invocations[i + 1].started >= invocations[i].ended + waits[i]

\* With the default arguments, fn failed twice and then succeeded: it was invoked
\* three times, after waits of 1000 and 2000 ms, and the call returned its value.
C9_Witness ==
    /\ retry.pc = "returned"
    /\ retry.maxRetries = Whole(DefaultMaxRetries)
    /\ retry.initialDelayMs = DefaultInitialDelayMs
    /\ Len(invocations) = 3
    /\ Failed = {1, 2}
    /\ retry.ret = Fulfilled("B")
    /\ waits = <<1000, 2000>>

\* C10 (exhaustion law): with maxRetries = n >= 0, a count, and a fn that fails every
\* time, the call ends after n + 1 invocations and n waits, by throwing the
\* error of invocation n + 1 itself; it never waits after that failure, and it
\* ends in no other way while every invocation has failed.
C10_Exhaustion ==
    LET n == retry.maxRetries.floor
    IN  (IsCount(retry.maxRetries) /\ retry.pc # "idle" /\ Failed = DOMAIN invocations)
        => /\ Len(invocations) <= n + 1
           /\ Len(waits) <= n
           /\ retry.pc \in {"sleeping", "threw"}
           /\ retry.pc = "threw" <=> Len(invocations) = n + 1
           /\ retry.pc = "threw"
              => /\ Len(waits) = n
                 /\ retry.ret = FailureOf(n + 1)
                 /\ retry.ret = invocations[n + 1].out
                 /\ \A i \in 1..n : retry.ret # invocations[i].out

\* With the default maxRetries of 3, fn failed four times: the call waited three
\* times and threw the fourth failure.
C10_Witness ==
    /\ retry.pc = "threw"
    /\ retry.maxRetries = Whole(DefaultMaxRetries)
    /\ retry.initialDelayMs = DefaultInitialDelayMs
    /\ Len(invocations) = 4
    /\ Failed = 1..4
    /\ waits = <<1000, 2000, 4000>>
    /\ retry.ret = invocations[4].out

\* All there is about key in deduplicatedFetch: its registry entry, its
\* requests and its calls.
ViewOf(key) ==
    <<pendingRequests[key],
      {<<r, requests[r]>> : r \in {q \in DOMAIN requests : requests[q].key = key}},
      {<<c, callers[c]>> : c \in {d \in 1..MaxCallers : callers[d].key = key}}>>

\* C17 (key independence): the requests of two keys do not interact.  A step
\* made for one key (a call, the settling of its fetcher by success or by
\* failure, the removal of its entry, a caller seeing its outcome) leaves the
\* entry, the requests and the calls of every other key as they were; a call
\* for a key with no entry invokes its fetcher whatever is outstanding for
\* other keys, so each key has one invocation outstanding; and a call is only
\* ever given the promise of a request of its own key.
C17_KeyIndependence ==
    /\ [][\A k1, k2 \in DedupKeys :
            k1 # k2 => (ViewOf(k1)' = ViewOf(k1) \/ ViewOf(k2)' = ViewOf(k2))]_vars
    /\ [][\A c \in 1..MaxCallers :
            (callers[c].pc = "idle" /\ callers'[c].pc # "idle"
               /\ ~PendingHas(pendingRequests, callers'[c].key))
            => callers'[c].started]_vars
    /\ [](\A key \in DedupKeys : Cardinality(Outstanding(key)) <= 1)
    /\ [](\A c \in 1..MaxCallers :
            callers[c].pc # "idle"
            => requests[callers[c].promise].key = callers[c].key)

\* The requests of two keys were outstanding together; the one started last
\* has failed and its entry is gone, while the one started first is still
\* running with its entry in place.
C17_Witness ==
    /\ Len(requests) = 2
    /\ requests[1].key # requests[2].key
    /\ requests[1].phase = "running"
    /\ pendingRequests[requests[1].key] = 1
    /\ requests[2].phase = "done"
    /\ requests[2].outcome.kind = "error"
    /\ pendingRequests[requests[2].key] = 0
    /\ \E c \in 1..MaxCallers : callers[c].pc = "got" /\ callers[c].promise = 2

(***************************************************************************)
(* Properties of has, size and delete (SpecCache).                         *)
(***************************************************************************)
\* C13 (has): has(key) answers true exactly when get(key), made in the same
\* state at the same time, would return a value other than absent (the key is
\* stored, has not outlived its ttl, and its value is not null); and has leaves
\* the cache that get would leave: without the key's entry when the entry had
\* outlived its ttl, as it was otherwise.
C13_HasIsGet ==
    [][lastOp'.op = "has"
       => LET k == lastOp'.key
              stored == MapHas(cache, k)
              stale == stored /\ Stale(MapGet(cache, k), now)
          IN  /\ lastOp'.ret = "true" <=> CacheGet(cache, k, now) # Null
              /\ lastOp'.ret = "true"
                    <=> (stored /\ ~stale /\ MapGet(cache, k).data # Null)
              /\ lastOp'.ret \in {"true", "false"}
              /\ cache' = CacheAfterGet(cache, k, now)
              /\ cache' = IF stale THEN MapDelete(cache, k) ELSE cache]_vars

\* A has has just found an entry that had outlived its ttl, answered false
\* and removed it, with another entry left in place.
C13_Witness ==
    /\ lastOp.op = "has"
    /\ lastOp.found = "expired"
    /\ lastOp.ret = "false"
    /\ ~MapHas(cache, lastOp.key)
    /\ CacheSize(cache) = lastOp.size - 1
    /\ CacheSize(cache) >= 1

\* C14 (size): size() is the number of distinct keys the cache holds, the
\* entries that have outlived their ttl and were not touched since included;
\* and a step in which only time passes leaves size() as it was.
C14_Size ==
    /\ [](CacheSize(cache) = Cardinality(KeysOf(cache)))
    /\ [][lastOp'.op = "tick" => CacheSize(cache') = CacheSize(cache)]_vars

\* Time has just passed over an entry, which has now outlived its ttl and is
\* still counted.
C14_Witness ==
    /\ lastOp.op = "tick"
    /\ CacheSize(cache) = 2
    /\ \E i \in DOMAIN cache :
          /\ Stale(cache[i], now)
          /\ ~Stale(cache[i], now - 1)

\* C15 (delete): delete(key) takes the entry of key out of the cache and
\* nothing else: get(key) is absent afterwards, and every other entry is there
\* with its value, timestamp and ttl, in the same order; when key is not
\* stored nothing changes (and delete does not fail).
C15_DeleteFrame ==
    [][lastOp'.op = "delete"
       => LET k == lastOp'.key
          IN  /\ ~MapHas(cache', k)
              /\ CacheGet(cache', k, now) = Null
              /\ IF MapHas(cache, k)
                 THEN LET i == IndexOf(cache, k)
                      IN  cache' = SubSeq(cache, 1, i - 1)
                                    \o SubSeq(cache, i + 1, Len(cache))
                 ELSE cache' = cache]_vars

\* A delete has just removed a stored key and left another entry in place.
C15_Witness ==
    /\ lastOp.op = "delete"
    /\ lastOp.found # "none"
    /\ ~MapHas(cache, lastOp.key)
    /\ CacheSize(cache) = lastOp.size - 1
    /\ CacheSize(cache) >= 1

(***************************************************************************)
(* Properties of throttle (SpecThrottle).                                  *)
(***************************************************************************)
\* The step is a call of the throttled function.
IsThrottledCall == thist'.calls = thist.calls + 1

\* At least delayMs has passed since the last call that executed fn, or no
\* call executed fn yet.
WindowElapsed ==
    \/ thist.lastExecAt = NoTime
    \/ now - thist.lastExecAt >= throttled.delayMs

\* C11 (throttle law): a call of the throttled function executes fn exactly
\* when no call executed fn before it or at least delayMs has passed since the
\* last call that executed fn; the calls that were skipped do not count.  So
\* the first call executes fn, the calls that follow within less than delayMs
\* do not, and a call made delayMs after the first executes fn again.
C11_ThrottleLaw ==
    [][IsThrottledCall => (thist'.executed <=> WindowElapsed)]_vars

\* The same law for the calls made when the clock has reached delayMs.
C11_LawAfterEpoch ==
    [][(IsThrottledCall /\ now >= throttled.delayMs)
          => (thist'.executed <=> WindowElapsed)]_vars

\* Five calls in a row of which only the first executed fn, and then a call
\* that executed it again.
C11_FiveThenOne ==
    /\ thist.calls = 6
    /\ thist.execs = 2
    /\ thist.returned = 2
    /\ thist.executed
    /\ thist.ret = FnResult(2, thist.args)
    /\ throttled.lastResult = FnResult(2, thist.args)

(***************************************************************************)
(* Properties of debounce (SpecDebounceFair).                              *)
(***************************************************************************)
\* The call i is the last of its run: no call follows it within less than
\* delayMs.
EndsRun(i) ==
    \/ i = Len(timers)
    \/ timers[i + 1].set - timers[i].set >= debounced.delayMs

\* The executions of fn that the call i led to.
ExecutionsOf(i) == {j \in DOMAIN fired : fired[j].timer = i}

\* C12 (debounce law) as it holds: a call cancels the timer of the call
\* before it when that timer has not run yet, and a call followed by another
\* within less than delayMs is always cancelled so and never executes fn; a
\* call whose timer is not cancelled executes fn once, with its own arguments,
\* delayMs after it or later, and does so whenever its timer's time has come;
\* fn is executed by nothing else.
C12_DebounceLawOfTimers ==
    /\ [](/\ \A i \in DOMAIN timers :
              /\ ~EndsRun(i) => (timers[i].state = "cleared" /\ ExecutionsOf(i) = {})
              /\ i = Len(timers) => timers[i].state # "cleared"
              /\ i < Len(timers)
                    => \/ timers[i].state = "cleared"
                       \/ /\ timers[i].state = "fired"
                          /\ \A j \in ExecutionsOf(i) : fired[j].at <= timers[i + 1].set
              /\ Cardinality(ExecutionsOf(i)) = IF timers[i].state = "fired" THEN 1 ELSE 0
           /\ \A j \in DOMAIN fired :
              /\ fired[j].timer \in DOMAIN timers
              /\ fired[j].args = timers[fired[j].timer].args
              /\ fired[j].at >= timers[fired[j].timer].set + debounced.delayMs)
    /\ \A i \in 1..MaxDebounceCalls :
          (i \in Due(timers, now)) ~> (i \in DOMAIN timers /\ timers[i].state # "armed")

\* A call made delayMs or more after the call before it, whose timer was due
\* and had not run, has cancelled that timer: the earlier call, a run by
\* itself, never executes fn.
C12_LateTimerCleared ==
    /\ Len(timers) = 2
    /\ debounced.delayMs > 0
    /\ timers[2].set - timers[1].set >= debounced.delayMs
    /\ timers[1].state = "cleared"
    /\ timers[2].state = "fired"
    /\ Len(fired) = 1

\* C12 (debounce law), as claimed: every call that is followed by another
\* within less than delayMs has its timer cancelled by that call and never
\* executes fn; the last call of a run is never cancelled and, delayMs after
\* it, executes fn exactly once with its own arguments; fn is executed by
\* nothing else.
C12_DebounceLaw ==
    /\ \A i \in DOMAIN timers :
          /\ ~EndsRun(i) => (timers[i].state = "cleared" /\ ExecutionsOf(i) = {})
          /\ EndsRun(i) => timers[i].state # "cleared"
          /\ (EndsRun(i) /\ (i < Len(timers) \/ now > timers[i].due))
                => timers[i].state = "fired"
          /\ Cardinality(ExecutionsOf(i)) = IF timers[i].state = "fired" THEN 1 ELSE 0
    /\ \A j \in DOMAIN fired :
          /\ fired[j].timer \in DOMAIN timers
          /\ fired[j].args = timers[fired[j].timer].args
          /\ fired[j].at = timers[fired[j].timer].set + debounced.delayMs

\* A run of three calls, the gaps shorter than delayMs, the last with other
\* arguments than the first two, has executed fn once.
C12_Witness ==
    /\ Len(timers) = 3
    /\ timers[2].set > timers[1].set
    /\ timers[3].set > timers[2].set
    /\ ~EndsRun(1) /\ ~EndsRun(2)
    /\ timers[1].args # timers[3].args
    /\ fired = <<[timer |-> 3, at |-> timers[3].set + debounced.delayMs,
                  args |-> timers[3].args]>>

(***************************************************************************)
(* Properties of throttle's result (SpecThrottle).                         *)
(***************************************************************************)
\* C18 (throttle stale result): a call that does not execute fn returns the
\* result of the most recent call that executed fn, whatever its own
\* arguments: there is such a call, the value returned is its result, and fn
\* has run no further time.
C18_StaleResult ==
    [][(IsThrottledCall /\ ~thist'.executed)
          => /\ thist.execs > 0
             /\ thist'.ret = thist.lastExec
             /\ thist'.execs = thist.execs]_vars

\* fn has returned every time it was executed and has never called the
\* throttled function itself.
FnPlain == thist.thrown = 0 /\ thist.nested = 0 /\ throttled.running = << >>

\* The same for the skipped calls that come after a call that executed fn,
\* when fn returns and does not call the throttled function.
C18_StaleAfterFirst ==
    [][(IsThrottledCall /\ ~thist'.executed /\ thist.execs > 0 /\ FnPlain)
          => /\ thist'.ret = thist.lastExec
             /\ thist'.execs = thist.execs]_vars

\* A skipped call made with other arguments than the call that executed fn
\* has returned that call's result.
C18_SkippedGotStale ==
    /\ thist.calls >= 2
    /\ ~thist.executed
    /\ thist.execs = 1
    /\ thist.returned = 1
    /\ thist.ret = FnResult(1, "p")
    /\ thist.args = "q"

\* fn threw in the most recent call that executed it: a later call inside
\* the window is skipped (line 107 ran before fn) and returns the result of
\* the execution before.
C18_SkippedAfterThrow ==
    /\ thist.execs = 2
    /\ thist.returned = 1
    /\ thist.thrown = 1
    /\ throttled.running = << >>
    /\ ~thist.executed
    /\ thist.lastExec = FnResult(2, "q")
    /\ thist.ret = FnResult(1, "p")

\* A call that fn makes of the throttled function while it runs for the
\* first time is skipped and returns undefined.
C18_NestedGotUndefined ==
    /\ thist.calls = 2
    /\ thist.execs = 1
    /\ thist.nested = 1
    /\ Len(throttled.running) = 1
    /\ ~thist.executed
    /\ thist.ret = Undefined

(***************************************************************************)
(* Properties of createCacheKey (SpecKey).                                 *)
(***************************************************************************)
\* The string s holds the delimiter.
HasColon(s) == \E i \in DOMAIN s : s[i] = ":"

\* No part of the list holds the delimiter.
ColonFree(parts) == \A i \in DOMAIN parts : ~HasColon(ToStr(parts[i]))

\* The length of the strings of the first n parts together.
RECURSIVE LenSum(_, _)
LenSum(parts, n) == IF n = 0 THEN 0 ELSE LenSum(parts, n - 1) + Len(ToStr(parts[n]))

\* The key is the parts' strings in order, with one ":" between neighbours
\* and nothing else.
JoinedInOrder(parts, key) ==
    /\ Len(key) = LenSum(parts, Len(parts)) + (IF parts = << >> THEN 0 ELSE Len(parts) - 1)
    /\ \A i \in DOMAIN parts :
          LET from == LenSum(parts, i - 1) + (i - 1)
          IN  /\ SubSeq(key, from + 1, from + Len(ToStr(parts[i]))) = ToStr(parts[i])
              /\ i > 1 => key[from] = ":"

\* C19 (createCacheKey): the key is the parts joined in order with ":"
\* between them; and two calls whose parts (strings, numbers or booleans) hold
\* no ":" return the same key only if they were given the same sequence of
\* parts.
C19_KeyInjective ==
    /\ \A i \in DOMAIN keyed : JoinedInOrder(keyed[i].parts, keyed[i].key)
    /\ (/\ Len(keyed) = 2
        /\ ColonFree(keyed[1].parts)
        /\ ColonFree(keyed[2].parts)
        /\ keyed[1].key = keyed[2].key)
       => keyed[1].parts = keyed[2].parts

\* The same for argument lists that are not empty, taken as the sequences of
\* their parts' strings.
C19_InjectiveOnStrings ==
    /\ \A i \in DOMAIN keyed : JoinedInOrder(keyed[i].parts, keyed[i].key)
    /\ (/\ Len(keyed) = 2
        /\ keyed[1].parts # << >> /\ keyed[2].parts # << >>
        /\ ColonFree(keyed[1].parts)
        /\ ColonFree(keyed[2].parts)
        /\ keyed[1].key = keyed[2].key)
       => [i \in DOMAIN keyed[1].parts |-> ToStr(keyed[1].parts[i])]
            = [i \in DOMAIN keyed[2].parts |-> ToStr(keyed[2].parts[i])]

(***************************************************************************)
(* Properties of deduplicatedFetch with nested calls (SpecNested).         *)
(***************************************************************************)
\* The operations of key that are in flight: started, and not settled yet.
InFlight(key) ==
    {r \in DOMAIN requests : requests[r].key = key /\ requests[r].phase = "running"}

\* C20 (one in flight per key): in every reachable state each key has at most
\* one operation started through deduplicatedFetch in flight, also when an
\* operation calls deduplicatedFetch with its own key before it returns its
\* promise.
C20_OneInFlight == \A key \in DedupKeys : Cardinality(InFlight(key)) <= 1

(***************************************************************************)
(* Properties of set on a full cache and on a stored key (SpecEvict).      *)
(***************************************************************************)
\* The cache that is left by a set of key k that first removes the oldest entry.
OldestOutThenSet(c, k, data, ttlMs, t) == MapSet(Tail(c), k, Entry(k, data, t, ttlMs))

\* C21 (eviction by count): a set made while the cache holds maxSize keys or
\* more removes exactly the oldest entry and then inserts, whether its key is
\* stored or not; so a set of a stored key other than the oldest leaves
\* size() one below what it was, and a set of the oldest key leaves it as it
\* was.
C21_EvictionByCount ==
    [][(lastOp'.op = "set" /\ CacheSize(cache) >= maxSize)
       => LET k == lastOp'.key
          IN  /\ cache' = OldestOutThenSet(cache, k, lastOp'.data, lastOp'.ttl, now)
              /\ (MapHas(cache, k) /\ cache[1].key # k)
                    => CacheSize(cache') = CacheSize(cache) - 1
              /\ cache[1].key = k => CacheSize(cache') = CacheSize(cache)]_vars

\* The same for a cache whose oldest key is not the empty string.
C21_EvictionOfNamedKey ==
    [][(lastOp'.op = "set" /\ CacheSize(cache) >= maxSize /\ Truthy(cache[1].key))
       => LET k == lastOp'.key
          IN  /\ cache' = OldestOutThenSet(cache, k, lastOp'.data, lastOp'.ttl, now)
              /\ (MapHas(cache, k) /\ cache[1].key # k)
                    => CacheSize(cache') = CacheSize(cache) - 1
              /\ cache[1].key = k => CacheSize(cache') = CacheSize(cache)]_vars

\* A set of a stored key on a full cache has removed the oldest entry, another
\* key's, and left maxSize - 1 entries.
C21_OverwriteEvicted ==
    /\ lastOp.op = "set"
    /\ lastOp.size = maxSize
    /\ lastOp.found # "none"
    /\ CacheSize(cache) = maxSize - 1
    /\ cache[1].key = lastOp.key
    /\ cache[1].data = "B"

\* The entries of key k in the cache c.
EntriesOf(c, k) == {i \in DOMAIN c : c[i].key = k}

\* C22 (one entry per key): no key ever has two entries; a set of a stored
\* key leaves one entry for it, holding the new value, the time of the set as
\* its timestamp and the new ttl; and below capacity such a set leaves size()
\* as it was.
C22_OneEntryPerKey ==
    /\ [](Cardinality(KeysOf(cache)) = Len(cache))
    /\ [][(lastOp'.op = "set" /\ MapHas(cache, lastOp'.key))
           => LET k == lastOp'.key
              IN  /\ Cardinality(EntriesOf(cache', k)) = 1
                  /\ MapGet(cache', k) = Entry(k, lastOp'.data, now, lastOp'.ttl)
                  /\ CacheSize(cache) < maxSize
                        => CacheSize(cache') = CacheSize(cache)]_vars

\* Below capacity, a stored key has just been set again at a later time, with
\* another value and another ttl: its one entry holds the new ones.
C22_Witness ==
    /\ lastOp.op = "set"
    /\ lastOp.found # "none"
    /\ lastOp.size = 1
    /\ now = 1
    /\ cache = <<Entry(lastOp.key, "B", 1, 1)>>

(***************************************************************************)
(* Properties of deduplicatedFetch after completion (SpecDedup).           *)
(***************************************************************************)
\* The requests of key that have completed: the promise deduplicatedFetch
\* gave for them has settled.
Completed(key) ==
    {r \in DOMAIN requests : requests[r].key = key /\ requests[r].phase = "done"}

\* C23 (no result kept): a call made for a key of which a request has
\* completed, with a value or with a failure, and none is outstanding invokes
\* its fetcher
\* afresh: it makes a new request and is given the promise of that one; and
\* what a call gets is the outcome of the request whose promise it was given,
\* never that of an earlier one.
C23_NoResultKept ==
    /\ [][\A c \in 1..MaxCallers :
            LET key == callers'[c].key
            IN  (/\ callers[c].pc = "idle"
                 /\ callers'[c].pc # "idle"
                 /\ Completed(key) # {}
                 /\ Outstanding(key) = {})
                => /\ callers'[c].started
                   /\ Len(requests') = Len(requests) + 1
                   /\ callers'[c].promise = Len(requests')
                   /\ requests'[Len(requests')].key = key]_vars
    /\ [](\A c \in 1..MaxCallers :
            callers[c].pc = "got"
            => /\ requests[callers[c].promise].phase = "done"
               /\ callers[c].ret = requests[callers[c].promise].outcome)

\* A request failed and its caller saw the failure; a later call for the same
\* key invoked its fetcher afresh and got that one's value.
C23_Witness ==
    /\ Len(requests) = 2
    /\ requests[1].key = requests[2].key
    /\ requests[1].outcome = Rejected("E1")
    /\ requests[2].outcome = Fulfilled("A")
    /\ callers[1].pc = "got" /\ callers[1].ret = Rejected("E1")
    /\ callers[2].live = {}
    /\ callers[2].started
    /\ callers[2].promise = 2
    /\ callers[2].pc = "got" /\ callers[2].ret = Fulfilled("A")

(***************************************************************************)
(* Properties of withExponentialBackoff's ending (SpecBackoffFair,         *)
(* SpecBackoff).                                                           *)
(***************************************************************************)
\* The call has returned or thrown.
RetrySettled == retry.pc \in {"returned", "threw"}

\* C24 (termination of retry): for maxRetries >= 0, a call whose invocations
\* of fn all complete and whose timers all run out ends, by returning or by
\* throwing; it never makes more than maxRetries + 1 invocations (the number
\* of invocations being whole, no more than the floor of maxRetries, plus 1);
\* and an invocation that succeeded is the last one, the call having returned.
C24_Termination ==
    /\ [](NonNegative(retry.maxRetries)
            => LessEq(Len(invocations) - 1, retry.maxRetries))
    /\ [](\A i \in DOMAIN invocations :
            invocations[i].out.kind = "value"
            => (i = Len(invocations) /\ retry.pc = "returned"))
    /\ (retry.pc # "idle" /\ NonNegative(retry.maxRetries)) ~> RetrySettled

\* The same for the finite maxRetries >= 0, whole or not.
C24_TerminationOfFinite ==
    /\ []((NonNegative(retry.maxRetries) /\ IsFinite(retry.maxRetries))
            => Len(invocations) <= retry.maxRetries.floor + 1)
    /\ [](\A i \in DOMAIN invocations :
            invocations[i].out.kind = "value"
            => (i = Len(invocations) /\ retry.pc = "returned"))
    /\ (retry.pc # "idle" /\ NonNegative(retry.maxRetries) /\ IsFinite(retry.maxRetries))
          ~> RetrySettled

\* With maxRetries = Infinity no failure of fn ends the call: it never
\* throws, and while every invocation has failed it has not ended.
C24_InfinityNeverThrows ==
    (retry.pc # "idle" /\ retry.maxRetries = Infinity)
    => /\ retry.pc # "threw"
       /\ Failed = DOMAIN invocations => retry.pc \in {"awaiting", "sleeping"}

\* Called with maxRetries = Infinity and initialDelayMs = 0, the call has
\* invoked fn more often than any of the finite maxRetries here allows, every
\* invocation has failed, and it is waiting to invoke it again.
C24_RetriesOnAndOn ==
    /\ retry.maxRetries = Infinity
    /\ retry.initialDelayMs = 0
    /\ retry.attempt > MaxMaxRetries + 1
    /\ Failed = DOMAIN invocations
    /\ retry.pc = "sleeping"

\* The call has returned the value of its last permitted invocation, the
\* ones before having failed.
C24_Witness ==
    /\ retry.pc = "returned"
    /\ retry.maxRetries = Whole(2)
    /\ Len(invocations) = retry.maxRetries.floor + 1
    /\ Failed = {1, 2}
    /\ Len(waits) = 2

\* C28 (the generic error): the call throws 'Max retries exceeded' only when
\* maxRetries is negative, and then it has not invoked fn; with maxRetries >= 0
\* fn is invoked at least once, and what the call throws is a failure of one
\* of the invocations of fn.
C28_GenericError ==
    /\ retry.ret = MaxRetriesExceeded
          => (Negative(retry.maxRetries) /\ invocations = << >>)
    /\ (retry.pc # "idle" /\ Negative(retry.maxRetries))
          => (retry.pc = "threw" /\ retry.ret = MaxRetriesExceeded /\ invocations = << >>)
    /\ (retry.pc # "idle" /\ NonNegative(retry.maxRetries))
          => Len(invocations) >= 1
    /\ (retry.pc = "threw" /\ NonNegative(retry.maxRetries))
          => /\ retry.ret.kind = "error"
             /\ \E i \in DOMAIN invocations : invocations[i].out = retry.ret

\* The same, of the calls whose maxRetries is a whole number: the generic
\* error is thrown by those with a negative one alone, fn not invoked.
C28_GenericErrorOfCounts ==
    (retry.pc # "idle" /\ retry.maxRetries.kind = "number" /\ ~retry.maxRetries.half)
    => /\ retry.ret = MaxRetriesExceeded
             => (Negative(retry.maxRetries) /\ invocations = << >>)
       /\ Negative(retry.maxRetries)
             => (retry.pc = "threw" /\ retry.ret = MaxRetriesExceeded)
       /\ NonNegative(retry.maxRetries) => Len(invocations) >= 1
       /\ (retry.pc = "threw" /\ NonNegative(retry.maxRetries))
             => retry.ret = invocations[Len(invocations)].out

\* Called with maxRetries = 0.5, the call has invoked fn once, waited once
\* after its failure and thrown the generic error, not fn's failure.
C28_GenericAfterFailure ==
    /\ retry.pc = "threw"
    /\ retry.maxRetries = AndAHalf(0)
    /\ retry.ret = MaxRetriesExceeded
    /\ Len(invocations) = 1
    /\ invocations[1].out = FailureOf(1)
    /\ Len(waits) = 1

\* Called with maxRetries = -1, the call has thrown the generic error without
\* invoking fn.
C28_Witness ==
    /\ retry.pc = "threw"
    /\ retry.maxRetries = Whole(-1)
    /\ retry.ret = MaxRetriesExceeded
    /\ invocations = << >>
    /\ waits = << >>

(***************************************************************************)
(* Properties of the eviction order (SpecOrder).                           *)
(***************************************************************************)
\* The key k has not fallen behind any key that it was ahead of in c.
PlaceKept(c, after, k) ==
    \A j \in KeysOf(c) \cap KeysOf(after) :
       IndexOf(c, k) < IndexOf(c, j) => IndexOf(after, k) < IndexOf(after, j)

\* The entries of c that are not in the cache any more are none but the first,
\* taken out for capacity.
OnlyOldestOut(c, after) ==
    \A i \in DOMAIN c :
       ~MapHas(after, c[i].key) => (CacheSize(c) >= maxSize /\ i = 1)

\* C25 as stated (overwriting keeps the place): a key that is set again while
\* stored keeps the place of its first insertion in the eviction order, and
\* the entry a set takes out for capacity is the first in that order.
C25_PlaceAlwaysKept ==
    [][lastOp'.op = "set"
       => /\ MapHas(cache, lastOp'.key)
                => (MapHas(cache', lastOp'.key)
                    /\ PlaceKept(cache, cache', lastOp'.key))
          /\ OnlyOldestOut(cache, cache')]_vars

\* The keys of c in the eviction order, k left out.
OthersInOrder(c, k) ==
    SelectSeq([i \in DOMAIN c |-> c[i].key], LAMBDA key : key # k)

\* C25 amended: a set takes out the oldest entry when the cache is full and
\* its oldest key is not the empty string, and no entry otherwise; the keys
\* other than the key set keep their order.  A key that is set again while
\* stored keeps its place in that order, unless it is the oldest key of a
\* full cache and not the empty string: the set then takes it out and
\* inserts it anew, at the last place, as it does a key that was not stored.
\* The empty string as the oldest key of a full cache stays the first.
C25_PlaceKept ==
    [][lastOp'.op = "set"
       => LET k == lastOp'.key
              full == CacheSize(cache) >= maxSize
              evicts == full /\ cache[1].key # ""
              rest == IF evicts THEN Tail(cache) ELSE cache
          IN  /\ OthersInOrder(cache', k) = OthersInOrder(rest, k)
              /\ MapHas(cache', k)
              /\ IF MapHas(cache, k) /\ ~(evicts /\ cache[1].key = k)
                 THEN IndexOf(cache', k) = IndexOf(rest, k)
                 ELSE IndexOf(cache', k) = Len(cache')
              /\ (full /\ cache[1].key = "")
                    => (cache'[1].key = "" /\ KeysOf(cache) \subseteq KeysOf(cache'))]_vars

\* The oldest key of a full cache was set again: it is now the last in the
\* eviction order and the second key is the oldest.
C25_OldestRefreshed ==
    /\ lastOp.op = "set"
    /\ lastOp.key = "1"
    /\ lastOp.size = maxSize
    /\ lastOp.oldest.key = "1"
    /\ cache[1].key = "2"
    /\ cache[Len(cache)].key = "1"
    /\ CacheSize(cache) = maxSize

\* The empty string, the oldest key of a full cache, was set again: nothing
\* was taken out and it is still the first.
C25_EmptyKeyStays ==
    /\ lastOp.op = "set"
    /\ lastOp.key = ""
    /\ lastOp.size = maxSize
    /\ lastOp.oldest.key = ""
    /\ cache[1].key = ""
    /\ cache[1].data = "B"
    /\ CacheSize(cache) = maxSize

\* A new key was set on a full cache whose oldest key is the empty string:
\* the eviction for capacity has removed nothing.
C25_EmptyKeyNotEvicted ==
    /\ lastOp.op = "set"
    /\ lastOp.found = "none"
    /\ lastOp.size = maxSize
    /\ lastOp.oldest.key = ""
    /\ cache[1].key = ""
    /\ CacheSize(cache) = maxSize + 1

\* The oldest key was set again after all the others; the next set of a new
\* key on the full cache has taken it out, and the second key, which was
\* written before it, is now the oldest.
C25_Witness ==
    /\ lastOp.op = "set"
    /\ lastOp.found = "none"
    /\ lastOp.size = maxSize
    /\ lastOp.oldest = Entry("1", "B", 1, 1)
    /\ ~MapHas(cache, "1")
    /\ cache[1] = Entry("2", "A", 0, 0)
    /\ CacheSize(cache) = maxSize

(***************************************************************************)
(* Properties of cachedFetch after a success (SpecFetch).                  *)
(***************************************************************************)
\* An earlier cachedFetch call for key k invoked its fetcher and returned its
\* result, and the entry it stored is in the cache and within its ttl.
StoredByFetch(g, k) ==
    /\ fetches[g].pc = "returned"
    /\ fetches[g].invoked = 1
    /\ fetches[g].key = k
    /\ MapHas(cache, k)
    /\ ~Stale(MapGet(cache, k), now)
    /\ MapGet(cache, k).data = fetches[g].ret

\* C26 (hit after a success): a cachedFetch call made for a key while the
\* entry stored by an earlier successful cachedFetch of that key is in the
\* cache and within its ttl is a hit: it returns the stored result, whatever
\* value that is (null included), and does not invoke its fetcher.
C26_HitAfterSuccess ==
    [][\A g \in 1..MaxFetches :
          (lastOp'.op = "cachedFetch" /\ StoredByFetch(g, lastOp'.key))
          => /\ fetches'[lastOp'.fid].pc = "returned"
             /\ fetches'[lastOp'.fid].invoked = 0
             /\ fetches'[lastOp'.fid].ret = fetches[g].ret]_vars

\* The same for the results that are not null.
C26_HitAfterValue ==
    [][\A g \in 1..MaxFetches :
          (/\ lastOp'.op = "cachedFetch"
           /\ StoredByFetch(g, lastOp'.key)
           /\ fetches[g].ret # Null)
          => /\ fetches'[lastOp'.fid].pc = "returned"
             /\ fetches'[lastOp'.fid].invoked = 0
             /\ fetches'[lastOp'.fid].ret = fetches[g].ret]_vars

\* A call has returned, without invoking its fetcher, the value that the call
\* before it fetched and stored.
C26_SecondCallHit ==
    /\ lastOp.op = "cachedFetch"
    /\ lastOp.fid = 2
    /\ fetches[1].pc = "returned" /\ fetches[1].invoked = 1 /\ fetches[1].ret = "B"
    /\ fetches[2].pc = "returned" /\ fetches[2].invoked = 0 /\ fetches[2].ret = "B"

\* The call g missed together with the call f, for the same key, and its
\* fetcher has succeeded.
MissedWith(g, f) ==
    /\ g # f
    /\ fetches[g].key = fetches[f].key
    /\ fetches[g].invoked = 1
    /\ fetches[g].seen = fetches[f].seen
    /\ fetches[g].pc = "returned"

\* C27 (last completer wins): when the fetcher of a call succeeds after that
\* of another call that missed together with it for the same key, the key's
\* entry holds the result of the one that has just completed, with the time
\* of this completion as its timestamp and this call's ttl, whichever of the
\* two calls was made first; and the key has one entry.
C27_LastCompleterWins ==
    [][\A g \in 1..MaxFetches :
          LET f == lastOp'.fid
          IN  (lastOp'.op = "cachedFetch.resolve" /\ MissedWith(g, f))
              => /\ Cardinality(EntriesOf(cache', fetches[f].key)) = 1
                 /\ MapGet(cache', fetches[f].key)
                       = Entry(fetches[f].key, fetches'[f].ret, now, fetches[f].ttl)]_vars

\* Two calls missed together; the one made last completed first, the one made
\* first completed later, and the entry holds the result, the completion time
\* and the ttl of the one made first.
C27_Witness ==
    /\ lastOp.op = "cachedFetch.resolve"
    /\ lastOp.fid = 1
    /\ MissedWith(2, 1)
    /\ fetches[1].pc = "returned"
    /\ fetches[1].ret = "A" /\ fetches[1].ttl = 0
    /\ fetches[2].ret = "B" /\ fetches[2].ttl = 1
    /\ now = 1
    /\ MapGet(cache, fetches[1].key) = Entry(fetches[1].key, "A", 1, 0)

----------------------------------------------------------------------------
(* The task list: ProjectProvider (src/unnamed/part_005) holds the tasks,  *)
(* the hook useTaskManagement (src/hooks/useTaskManagement.ts) holds the   *)
(* form of a new task and the filters, and computes filteredTasks.         *)

\* String.prototype.trim, on titles whose only white space is the blank.
RECURSIVE TrimStart(_)
TrimStart(str) ==
    IF str # << >> /\ Head(str) = " " THEN TrimStart(Tail(str)) ELSE str

RECURSIVE TrimEnd(_)
TrimEnd(str) ==
    IF str # << >> /\ str[Len(str)] = " "
    THEN TrimEnd(SubSeq(str, 1, Len(str) - 1))
    ELSE str

Trim(str) == TrimEnd(TrimStart(str))

\* new Date().toISOString().split('T')[0]: the day a time of the clock is in.
DayOf(time) == time \div DayLength

Today == DayOf(now)

\* The times a handler reads off the clock, one read after the other: the
\* clock does not go back between two reads, and it may go on.
ClockReads(from, n) ==
    {reads \in [1..n -> from..MaxTaskNow] :
        \A i \in 1..(n - 1) : reads[i] <= reads[i + 1]}

\* The clock after the reads.
ClockAfter(from, reads) == IF reads = << >> THEN from ELSE reads[Len(reads)]

\* Array.prototype.indexOf on the priorities, counted from 0.
PriorityIndex(priority) == (CHOOSE i \in 1..3 : Priorities[i] = priority) - 1

IdsOf(list) == {list[i].id : i \in DOMAIN list}

\* The ids a handler is called with: those of the list and one of no task.
IdArgs == IdsOf(tasks) \cup {<<"x">>}

\* useTaskManagement.ts lines 43-61: the test a task passes to be listed,
\* one early return after the other.
Shown(task, f, today) ==
    IF f.priority # "all" /\ task.priority # f.priority THEN FALSE
    ELSE IF f.status = "active" /\ task.completed THEN FALSE
    ELSE IF f.status = "completed" /\ ~task.completed THEN FALSE
    ELSE IF f.date # "all"
         THEN IF f.date = "today" /\ task.dueDate # today THEN FALSE
              ELSE IF f.date = "overdue" /\ (task.dueDate < today /\ ~task.completed)
                   THEN FALSE
              ELSE IF f.date = "overdue" /\ (task.dueDate >= today \/ task.completed)
                   THEN FALSE
              ELSE IF f.date = "future" /\ task.dueDate <= today THEN FALSE
              ELSE TRUE
         ELSE TRUE

\* useTaskManagement.ts lines 42-62: the callback of useMemo, which filters
\* the list; line 52 reads the clock for each task, reads[i] for the i-th.
RECURSIVE FilteredFrom(_, _, _, _)
FilteredFrom(list, f, reads, i) ==
    IF i > Len(list) THEN << >>
    ELSE (IF Shown(list[i], f, DayOf(reads[i])) THEN <<list[i]>> ELSE << >>)
            \o FilteredFrom(list, f, reads, i + 1)

FilteredTasks(list, f, reads) == FilteredFrom(list, f, reads, 1)

\* useTaskManagement.ts line 62: a dependency of useMemo has changed, to list
\* or to f, and the render that follows, at time from or later, computes
\* filteredTasks anew.  It is not computed at any other time: the clock is no
\* dependency.
Rendered(list, f, from) ==
    \E reads \in ClockReads(from, Len(list)) :
        /\ filteredTasks' = FilteredTasks(list, f, reads)
        /\ now' = ClockAfter(from, reads)

\* useTaskManagement.ts lines 14-16: the setters of the form's fields.
SetNewTaskTitle(title) ==
    /\ form' = [form EXCEPT !.title = title]
    /\ taskOp' = TaskOp("none", << >>)
    /\ UNCHANGED <<tasks, filters, filteredTasks, loaded, cacheVars, dedupVars,
                   retryVars, shaperVars>>

SetNewTaskPriority(priority) ==
    /\ form' = [form EXCEPT !.priority = priority]
    /\ taskOp' = TaskOp("none", << >>)
    /\ UNCHANGED <<tasks, filters, filteredTasks, loaded, cacheVars, dedupVars,
                   retryVars, shaperVars>>

SetNewTaskDate(date) ==
    /\ form' = [form EXCEPT !.date = date]
    /\ taskOp' = TaskOp("none", << >>)
    /\ UNCHANGED <<tasks, filters, filteredTasks, loaded, cacheVars, dedupVars,
                   retryVars, shaperVars>>

\* useTaskManagement.ts lines 19-21 and 62: a setter of the filters.  A
\* filter set to the value it has is no change, and nothing is computed.
SetFilters(f) ==
    /\ filters' = f
    /\ taskOp' = TaskOp("none", << >>)
    /\ IF f = filters
       THEN UNCHANGED <<now, filteredTasks>>
       ELSE Rendered(tasks, f, now)
    /\ UNCHANGED <<tasks, form, loaded, cache, lastOp, fetches, opCount, dedupVars,
                   retryVars, shaperVars>>

SetFilterPriority(priority) == SetFilters([filters EXCEPT !.priority = priority])

SetFilterStatus(status) == SetFilters([filters EXCEPT !.status = status])

SetFilterDate(date) == SetFilters([filters EXCEPT !.date = date])

\* part_005 lines 34 and 17, 123: setTasks with a list, as the provider and
\* the users of the context call it.  The list is a new array, so that
\* filteredTasks is computed anew.
TasksSet(list, op) ==
    /\ tasks' = list
    /\ taskOp' = op
    /\ Rendered(list, filters, now)
    /\ UNCHANGED <<form, filters, cache, lastOp, fetches, opCount, dedupVars,
                   retryVars, shaperVars>>

SetTasks(list) ==
    /\ TasksSet(list, TaskOp("none", << >>))
    /\ UNCHANGED loaded

\* part_005 lines 39-58: loadData, run once when the provider is mounted.
\* The tasks of the store arrive after the await, at any time, and take the
\* place of the list (line 49).
LoadTasks(list) ==
    /\ ~loaded
    /\ loaded' = TRUE
    /\ TasksSet(list, TaskOp("none", << >>))

\* part_005 lines 53-55: the store fails, the error is logged and the list
\* stays.
LoadFails ==
    /\ ~loaded
    /\ loaded' = TRUE
    /\ taskOp' = TaskOp("none", << >>)
    /\ UNCHANGED <<tasks, form, filters, filteredTasks, cacheVars, dedupVars,
                   retryVars, shaperVars>>

\* useTaskManagement.ts lines 23-39 with part_005 lines 67-70: the form is
\* submitted.  A title of blanks alone adds nothing; otherwise the clock is
\* read three times: the new task has the text of the first time as its id
\* (line 28), is due on the form's date or, when that is empty, on the day of
\* the second (line 31), and was created at the third (line 33); it goes in
\* front of the list, and the title and date are reset.
AddTask ==
    /\ Len(tasks) < MaxTasks
    /\ IF Trim(form.title) = << >>
       THEN /\ taskOp' = TaskOp("none", << >>)
            /\ UNCHANGED <<now, tasks, form, filteredTasks>>
       ELSE \E reads \in ClockReads(now, 3) :
               LET task == Task(Digits(reads[1]), form.title, form.priority,
                                IF form.date = NoDate THEN DayOf(reads[2])
                                ELSE form.date,
                                FALSE, reads[3])
               IN  /\ tasks' = <<task>> \o tasks
                   /\ form' = [form EXCEPT !.title = << >>, !.date = NoDate]
                   /\ taskOp' = TaskOp("none", << >>)
                   /\ Rendered(<<task>> \o tasks, filters, reads[3])
    /\ UNCHANGED <<filters, loaded, cache, lastOp, fetches, opCount, dedupVars,
                   retryVars, shaperVars>>

\* part_005 lines 72-84: every task with the id changes its completed flag.
Toggled(list, id) ==
    [i \in DOMAIN list |->
        IF list[i].id = id
        THEN [list[i] EXCEPT !.completed = ~list[i].completed]
        ELSE list[i]]

ToggleTask(id) ==
    /\ TasksSet(Toggled(tasks, id), TaskOp("toggleTask", id))
    /\ UNCHANGED loaded

\* part_005 lines 86-89: the tasks with the id leave the list.
WithoutId(list, id) == SelectSeq(list, LAMBDA t : t.id # id)

DeleteTask(id) ==
    /\ TasksSet(WithoutId(tasks, id), TaskOp("deleteTask", id))
    /\ UNCHANGED loaded

\* part_005 lines 91-106: every task with the id gets the next priority of
\* high, medium, low, and high again.
Cycled(list, id) ==
    [i \in DOMAIN list |->
        IF list[i].id = id
        THEN [list[i] EXCEPT
                 !.priority = Priorities[((PriorityIndex(list[i].priority) + 1) % 3) + 1]]
        ELSE list[i]]

CyclePriority(id) ==
    /\ TasksSet(Cycled(tasks, id), TaskOp("cyclePriority", id))
    /\ UNCHANGED loaded

\* The clock of the task list moves on by a millisecond.
TaskTick ==
    /\ now < MaxTaskNow
    /\ now' = now + 1
    /\ taskOp' = TaskOp("none", << >>)
    /\ UNCHANGED <<tasks, form, filters, filteredTasks, loaded, cache, lastOp,
                   fetches, opCount, dedupVars, retryVars, shaperVars>>

\* The lists of the store, and the lists setTasks is called with.
StoredLists ==
    {<< >>, <<Task(<<"x">>, <<"t">>, "medium", 1, FALSE, 0)>>}

\* The tasks being loaded, added, completed, re-prioritised and deleted.
NextTasks ==
    \/ \E title \in Titles : SetNewTaskTitle(title)
    \/ \E priority \in {"high", "medium", "low"} : SetNewTaskPriority(priority)
    \/ AddTask
    \/ \E id \in IdArgs : ToggleTask(id)
    \/ \E id \in IdArgs : CyclePriority(id)
    \/ \E id \in IdArgs : DeleteTask(id)
    \/ \E list \in StoredLists : LoadTasks(list)
    \/ LoadFails
    \/ \E list \in StoredLists : SetTasks(list)
    \/ \E priority \in {"all", "high"} : SetFilterPriority(priority)
    \/ TaskTick

SpecTasks == Init /\ [][NextTasks]_vars

\* The tasks being loaded, added with due dates and completed, under every
\* filter.
NextFilter ==
    \/ SetNewTaskTitle(<<"t">>)
    \/ \E date \in Dates \cup {NoDate} : SetNewTaskDate(date)
    \/ AddTask
    \/ \E id \in IdArgs : ToggleTask(id)
    \/ \E list \in StoredLists : LoadTasks(list)
    \/ LoadFails
    \/ \E status \in {"all", "active", "completed"} : SetFilterStatus(status)
    \/ \E date \in {"all", "today", "overdue", "future"} : SetFilterDate(date)
    \/ TaskTick

SpecFilter == Init /\ [][NextFilter]_vars

----------------------------------------------------------------------------
(* The claims about the task list.                                         *)

OverdueAlone == [priority |-> "all", status |-> "all", date |-> "overdue"]

IsOverdue(task, today) == task.dueDate < today /\ ~task.completed

\* C29 (the 'overdue' filter): with the date filter at 'overdue' and the
\* priority and status filters at 'all', filteredTasks is exactly the tasks
\* that are due before today and not completed, in the order of the list.
C29_OverdueFilter ==
    filters = OverdueAlone
        => filteredTasks = SelectSeq(tasks, LAMBDA t : IsOverdue(t, Today))

\* What the code does instead: under the 'overdue' filter no task is listed,
\* whatever the other filters are.
C29_OverdueListsNothing ==
    filters.date = "overdue" => filteredTasks = << >>

\* filteredTasks is what the callback of useMemo gave when the list or a
\* filter last changed; the clock going on changes the day and not
\* filteredTasks: under 'today' a task due today is not listed.
C29_MemoOfYesterday ==
    /\ filters = [priority |-> "all", status |-> "all", date |-> "today"]
    /\ Len(tasks) = 1
    /\ tasks[1].dueDate = Today
    /\ filteredTasks = << >>

\* An overdue task is in the list while the 'overdue' filter stands alone.
C29_OverdueTaskHidden ==
    /\ filters = OverdueAlone
    /\ \E i \in DOMAIN tasks : IsOverdue(tasks[i], Today)

Changed(before, after) == {i \in DOMAIN before : after[i] # before[i]}

\* C30 (task identity): no two tasks of the list have the same id, so that
\* toggleTask and cyclePriority with the id of a task change that task and no
\* other, and deleteTask with it removes that task and no other.
C30_TaskIdentity ==
    /\ [](\A i, j \in DOMAIN tasks : tasks[i].id = tasks[j].id => i = j)
    /\ [][/\ (taskOp'.op \in {"toggleTask", "cyclePriority"} /\ taskOp'.id \in IdsOf(tasks))
               => Cardinality(Changed(tasks, tasks')) = 1
          /\ (taskOp'.op = "deleteTask" /\ taskOp'.id \in IdsOf(tasks))
               => Len(tasks') = Len(tasks) - 1]_vars

\* The id of a task that addTask made is the text of a time of the clock no
\* later than the time the task was created at: two submissions whose first
\* reads of the clock give the same millisecond make the same id.
C30_IdIsClockText ==
    \A i \in DOMAIN tasks :
        \/ tasks[i].id \in {list[1].id : list \in StoredLists \ {<< >>}}
        \/ \E time \in 0..tasks[i].createdAt : tasks[i].id = Digits(time)

\* Two tasks of one id, created at different times: the clock went on
\* between line 28 and line 33 of the submission that came first.
C30_SameIdOtherMs ==
    /\ Len(tasks) = 2
    /\ tasks[1].id = tasks[2].id
    /\ tasks[1].createdAt # tasks[2].createdAt

\* toggleTask with one id has completed two tasks.
C30_BothToggled ==
    /\ taskOp.op = "toggleTask"
    /\ Len(tasks) = 2
    /\ tasks[1].id = taskOp.id /\ tasks[2].id = taskOp.id
    /\ tasks[1].completed /\ tasks[2].completed
====
